---------------------------- MODULE Spec2Model ----------------------------
(***************************************************************************)
(* A model of the hoardbooru bot: the hidden-data codec, the Telegram      *)
(* media cache, the tag-phase state machine, the tagging menu and the      *)
(* upload-state classification.  Each subsystem has its own specification  *)
(* (SpecCodec, SpecCache, SpecConc, SpecWalk, SpecTag, SpecUpload); the    *)
(* variables of the other subsystems stay at their idle values.            *)
(*                                                                         *)
(* Strings the codec transforms are sequences of one-character strings.    *)
(* A python dict is a set of <<key, value>> pairs with distinct keys; when *)
(* its iteration order matters it is a sequence of such pairs.             *)
(***************************************************************************)
EXTENDS Integers, Sequences, FiniteSets, TLC

VARIABLES
    cData,      \* codec: the dict passed to hidden_data, in insertion order
    cKeys,      \* codec: the keys argument, [given |-> BOOLEAN, list |-> Seq]
    cMsg,       \* codec: the link entities of the message, in order
    cOut,       \* codec: what parse_hidden_data returned
    cpc,        \* codec: "start", "sent" (message built), "parsed"
    postMime,   \* catalog: the mime type of each post's content
    table,      \* database: the rows of cache_entries, in rowid order
    nextMedia,  \* Telegram: the media id the next message of the cache channel gets
    callLog,    \* cache: the store_in_cache calls made so far, each with the
                \*        table it found and the message it sent
    tpc,        \* tasks: each concurrent store_in_cache call's position
    tmsg,       \* tasks: the media id of the message each call sent (0: none yet)
    treq,       \* tasks: the call's arguments, [post |-> id, v |-> send_uncompressed]
    lastSaver,  \* tasks: per sent_as_file value, the task whose save ran last (0: none)
    wTags,      \* phase walk: the entry's tags (primary names), fixed during the walk
    wPath,      \* phase walk: the phase started from and every next_phase result since
    gTags,      \* catalog: the tags (primary names) of each post
    gCat,       \* catalog: the category of each tag made by a reply
    mMsg,       \* tagging: the menu message, with its link entities and buttons
    tEvt,       \* tagging: the last event handled, with the message it found
    uMsg,       \* unuploaded: the menu message, [kind, entities, pages, e6, fa]
    uCache,     \* unuploaded: the entries of the UploadStateCache
    uSteps,     \* unuploaded: the events handled so far
    uNow,       \* unuploaded: the time, in hours since the bot started
    uEvt,       \* unuploaded: the last event handled, with the cache it found
                \*             and the list_by_state calls it made
    iEvt,       \* inline search: the last query handled, with its answer
    fIn,        \* a function on its own: the call's arguments
    fOut        \* a function on its own: what the call returned or did

codecVars == <<cData, cKeys, cMsg, cOut, cpc>>
cacheVars == <<postMime, table, nextMedia, callLog>>
taskVars == <<tpc, tmsg, treq, lastSaver>>
walkVars == <<wTags, wPath>>
tagVars == <<gTags, gCat, mMsg, tEvt>>
uploadVars == <<uMsg, uCache, uSteps, uNow, uEvt>>
inlineVars == <<iEvt>>
funcVars == <<fIn, fOut>>

\* what the actions of one subsystem leave alone: the other subsystems
codecFrame == <<cacheVars, taskVars, walkVars, tagVars, uploadVars, inlineVars, funcVars>>
cacheFrame == <<codecVars, taskVars, walkVars, tagVars, uploadVars, inlineVars, funcVars>>
concFrame == <<codecVars, walkVars, tagVars, uploadVars, inlineVars, funcVars>>
walkFrame == <<codecVars, cacheVars, taskVars, tagVars, uploadVars, inlineVars, funcVars>>
tagFrame == <<codecVars, cacheVars, taskVars, walkVars, uploadVars, inlineVars, funcVars>>
uploadFrame == <<codecVars, taskVars, walkVars, gCat, mMsg, tEvt, inlineVars, funcVars>>
inlineFrame == <<codecVars, taskVars, walkVars, tagVars, uploadVars, funcVars>>
funcFrame == <<codecVars, cacheVars, taskVars, walkVars, tagVars, uploadVars, inlineVars>>

(***************************************************************************)
(* Bounds and input sets                                                   *)
(***************************************************************************)
MaxKeys == 2
MaxPosts == 2       \* posts in the catalog
MaxCalls == 3       \* sequential store_in_cache calls
NTasks == 2         \* concurrent store_in_cache calls
MaxWalk == 12       \* next_phase applications in one walk
MaxSteps == 4       \* events the unuploaded menu handles

KeyStrings == { <<"k">>, <<"x", "&", "y">>, <<>> }

ValStrings == { <<>>, <<"x">>, <<"x", " ", "y">>, <<"&", "=">>,
                <<"%", "2", "6">>, <<"+">> }

(***************************************************************************)
(* Sequence helpers                                                        *)
(***************************************************************************)
Range(s) == { s[i] : i \in 1..Len(s) }

RECURSIVE SeqsUpTo(_, _)
SeqsUpTo(S, n) ==
    IF n = 0 THEN { <<>> }
    ELSE LET shorter == SeqsUpTo(S, n - 1)
         IN  shorter \cup { Append(s, x) : s \in shorter, x \in S }

DistinctKeys(pairs) ==
    \A i, j \in 1..Len(pairs) : pairs[i][1] = pairs[j][1] => i = j

NoRepeats(s) == \A i, j \in 1..Len(s) : s[i] = s[j] => i = j

\* str.split(sep): the pieces between the separators, empty pieces kept
RECURSIVE SplitOn(_, _)
SplitOn(s, c) ==
    IF s = <<>> THEN << <<>> >>
    ELSE LET rest == SplitOn(Tail(s), c)
         IN  IF Head(s) = c
             THEN << <<>> >> \o rest
             ELSE << <<Head(s)>> \o Head(rest) >> \o Tail(rest)

\* the position of the first c in s, 0 when there is none
FirstIndex(s, c) ==
    IF \E i \in 1..Len(s) : s[i] = c
    THEN CHOOSE i \in 1..Len(s) : s[i] = c /\ \A j \in 1..(i - 1) : s[j] # c
    ELSE 0

(***************************************************************************)
(* urllib.parse as hidden_data and parse_hidden_data use it                *)
(***************************************************************************)
HIDDEN_DOMAIN == "example.com"

HexDigits == { "0", "1", "2", "3", "4", "5", "6", "7", "8", "9",
               "A", "B", "C", "D", "E", "F", "a", "b", "c", "d", "e", "f" }

\* quote_plus of one character: a space becomes "+", a reserved character
\* its percent escape, letters and digits stay
QuoteChar(c) ==
    CASE c = " " -> <<"+">>
      [] c = "&" -> <<"%", "2", "6">>
      [] c = "=" -> <<"%", "3", "D">>
      [] c = "+" -> <<"%", "2", "B">>
      [] c = "%" -> <<"%", "2", "5">>
      [] OTHER   -> <<c>>

RECURSIVE QuotePlus(_)
QuotePlus(s) ==
    IF s = <<>> THEN <<>> ELSE QuoteChar(Head(s)) \o QuotePlus(Tail(s))

\* the character a percent escape stands for
HexChar(h1, h2) ==
    CASE h1 = "2" /\ h2 = "6"          -> "&"
      [] h1 = "3" /\ h2 \in {"D", "d"} -> "="
      [] h1 = "2" /\ h2 \in {"B", "b"} -> "+"
      [] h1 = "2" /\ h2 = "5"          -> "%"
      [] h1 = "2" /\ h2 = "0"          -> " "
      [] OTHER                         -> "?"

\* urllib.parse.unquote: a "%" followed by two hex digits is decoded, any
\* other "%" is kept as it is
RECURSIVE Unquote(_)
Unquote(s) ==
    IF s = <<>> THEN <<>>
    ELSE IF Head(s) = "%" /\ Len(s) >= 3 /\ s[2] \in HexDigits /\ s[3] \in HexDigits
         THEN <<HexChar(s[2], s[3])>> \o Unquote(SubSeq(s, 4, Len(s)))
         ELSE <<Head(s)>> \o Unquote(Tail(s))

PlusToSpace(s) == [ i \in 1..Len(s) |-> IF s[i] = "+" THEN " " ELSE s[i] ]

\* urllib.parse.urlencode of a dict: k=v joined by "&", both quote_plus'ed
RECURSIVE UrlEncode(_)
UrlEncode(pairs) ==
    IF pairs = <<>> THEN <<>>
    ELSE LET kv == QuotePlus(Head(pairs)[1]) \o <<"=">> \o QuotePlus(Head(pairs)[2])
         IN  IF Len(pairs) = 1 THEN kv
             ELSE kv \o <<"&">> \o UrlEncode(Tail(pairs))

\* urllib.parse.parse_qsl with its defaults (keep_blank_values=False,
\* strict_parsing=False): the <<name, value>> pairs of a query string
RECURSIVE ParseQslPieces(_)
ParseQslPieces(pieces) ==
    IF pieces = <<>> THEN <<>>
    ELSE LET nv   == Head(pieces)
             eq   == FirstIndex(nv, "=")
             name == SubSeq(nv, 1, eq - 1)
             val  == SubSeq(nv, eq + 1, Len(nv))
             rest == ParseQslPieces(Tail(pieces))
         IN  IF nv = <<>> THEN rest                 \* empty piece: skipped
             ELSE IF eq = 0 THEN rest               \* no "=": a blank value, dropped
             ELSE IF Len(val) = 0 THEN rest         \* blank value: dropped
             ELSE << <<Unquote(PlusToSpace(name)), Unquote(PlusToSpace(val))>> >> \o rest

ParseQsl(query) == ParseQslPieces(SplitOn(query, "&"))

\* {key: vals[0] for key, vals in parse_qs(query).items()}, in the dict's
\* order: each name at its first occurrence
RECURSIVE FirstItemsFrom(_, _)
FirstItemsFrom(pairs, i) ==
    IF i > Len(pairs) THEN <<>>
    ELSE IF \A j \in 1..(i - 1) : pairs[j][1] # pairs[i][1]
         THEN <<pairs[i]>> \o FirstItemsFrom(pairs, i + 1)
         ELSE FirstItemsFrom(pairs, i + 1)

FirstItems(pairs) == FirstItemsFrom(pairs, 1)

FirstValues(pairs) == Range(FirstItems(pairs))

(***************************************************************************)
(* hidden_data.py                                                          *)
(***************************************************************************)
AsDict(pairs) == Range(pairs)

Lookup(pairs, k) == (CHOOSE p \in Range(pairs) : p[1] = k)[2]

\* trim_data: data itself, or the entries of the keys in the order given
\* (a repeated key is assigned twice and keeps its first position)
TrimData(data, keys) ==
    IF ~keys.given THEN data
    ELSE LET firsts == { i \in 1..Len(keys.list) :
                           \A j \in 1..(i - 1) : keys.list[j] # keys.list[i] }
             RECURSIVE Build(_)
             Build(i) ==
                 IF i > Len(keys.list) THEN <<>>
                 ELSE IF i \in firsts
                      THEN << <<keys.list[i], Lookup(data, keys.list[i])>> >> \o Build(i + 1)
                      ELSE Build(i + 1)
         IN  Build(1)

\* hidden_data(data, keys): the link entity the returned <a href> becomes
HiddenData(data, keys) ==
    [ netloc |-> HIDDEN_DOMAIN, query |-> UrlEncode(TrimData(data, keys)) ]

Absent == [ some |-> FALSE, dict |-> {} ]
Some(d) == [ some |-> TRUE, dict |-> d ]

\* the link parse_hidden_data decides on: the first one to the hidden domain
\* with a non-empty query string (0: there is none)
HiddenLinkIndex(entities) ==
    LET hits == { i \in 1..Len(entities) :
                    entities[i].netloc = HIDDEN_DOMAIN /\ entities[i].query # <<>> }
    IN  IF hits = {} THEN 0 ELSE CHOOSE i \in hits : \A j \in hits : i <= j

\* the dict parse_hidden_data returns, as its items in order (only when
\* there is a hidden link)
ParseHiddenItems(entities) ==
    FirstItems(ParseQsl(entities[HiddenLinkIndex(entities)].query))

\* parse_hidden_data(evt): the dict, or None when no link decides
ParseHiddenData(entities) ==
    IF HiddenLinkIndex(entities) = 0 THEN Absent
    ELSE Some(Range(ParseHiddenItems(entities)))

\* the restriction of a dict to a key list
Restrict(data, keys) ==
    IF ~keys.given THEN AsDict(data)
    ELSE { p \in AsDict(data) : p[1] \in Range(keys.list) }

(***************************************************************************)
(* The codec's specification: a dict and a key list are chosen, a message  *)
(* carrying hidden_data(data, keys) is sent, and it is parsed.             *)
(***************************************************************************)
OtherLink == [ netloc |-> "hoardbooru.example", query |-> <<"x", "=", "y">> ]

CodecDicts ==
    { d \in SeqsUpTo(KeyStrings \X ValStrings, MaxKeys) : DistinctKeys(d) }

KeyLists(d) ==
    { [ given |-> FALSE, list |-> <<>> ] } \cup
    { [ given |-> TRUE, list |-> l ] :
        l \in { s \in SeqsUpTo({ p[1] : p \in Range(d) }, MaxKeys) : NoRepeats(s) } }

CodecIdle ==
    /\ cData = <<>>
    /\ cKeys = [ given |-> FALSE, list |-> <<>> ]
    /\ cMsg = <<>>
    /\ cOut = Absent
    /\ cpc = "idle"

CodecInit ==
    /\ cData \in CodecDicts
    /\ cKeys \in KeyLists(cData)
    /\ cMsg = <<>>
    /\ cOut = Absent
    /\ cpc = "start"

\* a menu message is sent: the hidden link first, as every caller builds it
SendMenu ==
    /\ cpc = "start"
    /\ \E lead \in { <<>>, <<OtherLink>> } :
          cMsg' = lead \o <<HiddenData(cData, cKeys)>>
    /\ cpc' = "sent"
    /\ UNCHANGED <<cData, cKeys, cOut, codecFrame>>

\* a later event reads the state back from the message
ParseMenu ==
    /\ cpc = "sent"
    /\ cOut' = ParseHiddenData(cMsg)
    /\ cpc' = "parsed"
    /\ UNCHANGED <<cData, cKeys, cMsg, codecFrame>>

CodecNext == SendMenu \/ ParseMenu

\* the links a message can carry when it was not built by hidden_data: to
\* another domain, to the hidden domain with no query string, with a query
\* string of pieces that are no name=value pairs, and a well-formed one
ParseLinks ==
    { OtherLink } \cup
    { [ netloc |-> HIDDEN_DOMAIN, query |-> q ] :
        q \in { <<>>, <<"x">>, <<"&">>, <<"x", "&", "y">>, <<"k", "=", "v", "&", "x">>,
                <<"k", "=", "v">> } }

\* a message of any such links is received
ParseInitial ==
    /\ cData = <<>>
    /\ cKeys = [ given |-> FALSE, list |-> <<>> ]
    /\ cMsg \in SeqsUpTo(ParseLinks, 2)
    /\ cOut = Absent
    /\ cpc = "sent"

\* no function is being called on its own
NoCall == [ kind |-> "none" ]
NoResult == [ done |-> FALSE ]
FuncIdle == fIn = NoCall /\ fOut = NoResult

(***************************************************************************)
(* cache.py and database.py: the Telegram media cache                      *)
(***************************************************************************)
Mimes == { [ type |-> "image", sub |-> "png" ],
           [ type |-> "image", sub |-> "gif" ],
           [ type |-> "video", sub |-> "mp4" ],
           [ type |-> "application", sub |-> "zip" ] }

PostIds == 1..MaxPosts

\* how store_in_cache delivers the file: as a converted photo, as inline
\* media (mp4, gif), or as a document (asked for, or nothing else fits)
DeliveredAs(mime, send_uncompressed) ==
    IF ~send_uncompressed /\ mime.type = "image" /\ mime.sub # "gif"
    THEN [ is_photo |-> TRUE, sent_as_file |-> FALSE ]
    ELSE IF ~send_uncompressed /\ (mime = [ type |-> "video", sub |-> "mp4" ]
                                   \/ mime = [ type |-> "image", sub |-> "gif" ])
    THEN [ is_photo |-> FALSE, sent_as_file |-> FALSE ]
    ELSE [ is_photo |-> FALSE, sent_as_file |-> TRUE ]

\* the CacheEntry store_in_cache builds from the message it sent
CacheEntry(post_id, mime, is_photo, media, date) ==
    [ post_id |-> post_id, is_photo |-> is_photo, media_id |-> media,
      access_hash |-> 0 - media, file_url |-> <<"content", post_id>>,
      mime_type |-> mime, cache_date |-> date, is_thumbnail |-> FALSE,
      sent_as_file |-> FALSE ]

SameKey(row, entry) ==
    row.post_id = entry.post_id /\ row.sent_as_file = entry.sent_as_file

\* mutants of save_cache_entry: a plain INSERT, and ON CONFLICT DO NOTHING
SaveCacheEntry_PlainInsert(tbl, entry) == Append(tbl, entry)

SaveCacheEntry_IgnoreConflict(tbl, entry) ==
    IF \E i \in 1..Len(tbl) : SameKey(tbl[i], entry) THEN tbl ELSE Append(tbl, entry)

\* mutant of save_cache_entry: the conflict is on post_id alone and the old
\* rows of the post are replaced
SaveCacheEntry_ReplacePost(tbl, entry) ==
    Append(SelectSeq(tbl, LAMBDA row : row.post_id # entry.post_id), entry)

\* Database.save_cache_entry: INSERT ... ON CONFLICT(post_id, sent_as_file)
\* DO UPDATE SET every column
SaveCacheEntry(tbl, entry) ==
    IF \E i \in 1..Len(tbl) : SameKey(tbl[i], entry)
    THEN [ i \in 1..Len(tbl) |-> IF SameKey(tbl[i], entry) THEN entry ELSE tbl[i] ]
    ELSE Append(tbl, entry)

\* mutant: the duplicate is saved without setting sent_as_file
AsFileEntry_Unset(entry) == entry

\* the second save of store_in_cache: the same entry with sent_as_file set
AsFileEntry(entry) == [ entry EXCEPT !.sent_as_file = TRUE ]

\* the saves of store_in_cache, in order: the entry, and its as-file duplicate
\* when the file went out as a document
SaveEntries(tbl, entry, sent_as_file) ==
    LET first == SaveCacheEntry(tbl, entry)
    IN  IF sent_as_file THEN SaveCacheEntry(first, AsFileEntry(entry)) ELSE first

\* Database.fetch_cache_entries: the rows of a post, in rowid order
FetchCacheEntries(tbl, post_id) ==
    LET idx == { i \in 1..Len(tbl) : tbl[i].post_id = post_id }
        RECURSIVE Pick(_)
        Pick(i) == IF i > Len(tbl) THEN <<>>
                   ELSE IF i \in idx THEN <<tbl[i]>> \o Pick(i + 1)
                   ELSE Pick(i + 1)
    IN  Pick(1)

NoEntry == [ found |-> FALSE, entry |-> {} ]
Found(e) == [ found |-> TRUE, entry |-> {e} ]

\* TelegramMediaCache.load_cache: the first fetched row of that variant
LoadCache(tbl, post_id, as_document) ==
    LET entries == FetchCacheEntries(tbl, post_id)
        hits == { i \in 1..Len(entries) : entries[i].sent_as_file = as_document }
    IN  IF hits = {} THEN NoEntry
        ELSE Found(entries[CHOOSE i \in hits : \A j \in hits : i <= j])

RowsOf(tbl, post_id, variant) ==
    { i \in 1..Len(tbl) : tbl[i].post_id = post_id /\ tbl[i].sent_as_file = variant }

CacheIdle ==
    /\ postMime = [ p \in PostIds |-> [ type |-> "image", sub |-> "png" ] ]
    /\ table = <<>>
    /\ nextMedia = 1
    /\ callLog = <<>>

CacheInit ==
    /\ postMime \in [ PostIds -> Mimes ]
    /\ table = <<>>
    /\ nextMedia = 1
    /\ callLog = <<>>

\* one whole store_in_cache(post, send_uncompressed) call, nothing else
\* running in between: download, deliver to the cache channel, save
StoreInCache(post, send_uncompressed) ==
    /\ Len(callLog) < MaxCalls
    /\ LET how   == DeliveredAs(postMime[post], send_uncompressed)
           entry == CacheEntry(post, postMime[post], how.is_photo, nextMedia,
                               Len(callLog) + 1)
       IN  /\ table' = SaveEntries(table, entry, how.sent_as_file)
           /\ callLog' = Append(callLog, [ post |-> post, v |-> send_uncompressed,
                                           media |-> nextMedia, before |-> table,
                                           sent_as_file |-> how.sent_as_file ])
    /\ nextMedia' = nextMedia + 1
    /\ UNCHANGED <<postMime, cacheFrame>>

CacheNext == \E post \in PostIds, v \in BOOLEAN : StoreInCache(post, v)

(***************************************************************************)
(* Concurrent store_in_cache calls: each task suspends at the download, at *)
(* the delivery and at each save; the event loop runs one step at a time.  *)
(***************************************************************************)
Tasks == 1..NTasks

TaskIdle ==
    /\ tpc = [ t \in Tasks |-> "idle" ]
    /\ tmsg = [ t \in Tasks |-> 0 ]
    /\ treq = [ t \in Tasks |-> [ post |-> 1, v |-> FALSE ] ]
    /\ lastSaver = [ f \in BOOLEAN |-> 0 ]

\* every task is a call for the same post and the same variant
ConcInit ==
    /\ postMime \in [ PostIds -> Mimes ]
    /\ table = <<>>
    /\ nextMedia = 1
    /\ callLog = <<>>
    /\ tpc = [ t \in Tasks |-> "download" ]
    /\ tmsg = [ t \in Tasks |-> 0 ]
    /\ \E v \in BOOLEAN : treq = [ t \in Tasks |-> [ post |-> 1, v |-> v ] ]
    /\ lastSaver = [ f \in BOOLEAN |-> 0 ]

TaskHow(t) == DeliveredAs(postMime[treq[t].post], treq[t].v)

TaskEntry(t) ==
    CacheEntry(treq[t].post, postMime[treq[t].post], TaskHow(t).is_photo, tmsg[t], tmsg[t])

\* async with downloaded_file(post.content)
TaskDownload(t) ==
    /\ tpc[t] = "download"
    /\ tpc' = [ tpc EXCEPT ![t] = "send" ]
    /\ UNCHANGED <<cacheVars, tmsg, treq, lastSaver, concFrame>>

\* await self.client.send_file(self.cache_channel, ...)
TaskSend(t) ==
    /\ tpc[t] = "send"
    /\ tmsg' = [ tmsg EXCEPT ![t] = nextMedia ]
    /\ nextMedia' = nextMedia + 1
    /\ tpc' = [ tpc EXCEPT ![t] = "save" ]
    /\ UNCHANGED <<postMime, table, callLog, treq, lastSaver, concFrame>>

\* await self.db.save_cache_entry(cache_entry)
TaskSave(t) ==
    /\ tpc[t] = "save"
    /\ table' = SaveCacheEntry(table, TaskEntry(t))
    /\ lastSaver' = [ lastSaver EXCEPT ![FALSE] = t ]
    /\ tpc' = [ tpc EXCEPT ![t] = IF TaskHow(t).sent_as_file THEN "save_file" ELSE "done" ]
    /\ UNCHANGED <<postMime, nextMedia, callLog, tmsg, treq, concFrame>>

\* if sent_as_file: await self.db.save_cache_entry(cache_entry) once more
TaskSaveFile(t) ==
    /\ tpc[t] = "save_file"
    /\ table' = SaveCacheEntry(table, AsFileEntry(TaskEntry(t)))
    /\ lastSaver' = [ lastSaver EXCEPT ![TRUE] = t ]
    /\ tpc' = [ tpc EXCEPT ![t] = "done" ]
    /\ UNCHANGED <<postMime, nextMedia, callLog, tmsg, treq, concFrame>>

TaskStep(t) == TaskDownload(t) \/ TaskSend(t) \/ TaskSave(t) \/ TaskSaveFile(t)

ConcNext ==
    \/ \E t \in Tasks : TaskDownload(t)
    \/ \E t \in Tasks : TaskSend(t)
    \/ \E t \in Tasks : TaskSave(t)
    \/ \E t \in Tasks : TaskSaveFile(t)

AllDone == \A t \in Tasks : tpc[t] = "done"

(***************************************************************************)
(* tag_phases.py: the phases and their next_phase functions.  A tag name   *)
(* is a sequence of the parts the code joins it from.                      *)
(***************************************************************************)
STATUS_WIP == <<"status:wip">>
STATUS_FINAL == <<"status:final">>

\* PHASES, in the order of the dict
PhaseOrder == << "comm_status", "our_characters", "other_characters", "artist",
                 "meta_commissions", "wip_tags", "meta", "kink", "upload" >>

PhaseNames == Range(PhaseOrder)

\* mutants of next_phase: the commission phase tests the wrong status tag;
\* the wip phase leads back to the artist phase
NextPhase_WrongStatus(phase, tags) ==
    CASE phase = "comm_status"      -> "our_characters"
      [] phase = "our_characters"   -> "other_characters"
      [] phase = "other_characters" -> "artist"
      [] phase = "artist"           -> "meta_commissions"
      [] phase = "meta_commissions" -> IF STATUS_FINAL \in tags THEN "wip_tags" ELSE "meta"
      [] phase = "wip_tags"         -> "meta"
      [] phase = "meta"             -> "kink"
      [] phase = "kink"             -> IF STATUS_FINAL \in tags THEN "upload" ELSE "done"
      [] phase = "upload"           -> "done"

NextPhase_BackToArtist(phase, tags) ==
    CASE phase = "comm_status"      -> "our_characters"
      [] phase = "our_characters"   -> "other_characters"
      [] phase = "other_characters" -> "artist"
      [] phase = "artist"           -> "meta_commissions"
      [] phase = "meta_commissions" -> IF STATUS_WIP \in tags THEN "wip_tags" ELSE "meta"
      [] phase = "wip_tags"         -> "artist"
      [] phase = "meta"             -> "kink"
      [] phase = "kink"             -> IF STATUS_FINAL \in tags THEN "upload" ELSE "done"
      [] phase = "upload"           -> "done"

NextPhase_SkipCommission(phase, tags) ==
    CASE phase = "comm_status"      -> "our_characters"
      [] phase = "our_characters"   -> "other_characters"
      [] phase = "other_characters" -> "artist"
      [] phase = "artist"           -> IF STATUS_WIP \in tags THEN "wip_tags" ELSE "meta"
      [] phase = "meta_commissions" -> IF STATUS_WIP \in tags THEN "wip_tags" ELSE "meta"
      [] phase = "wip_tags"         -> "meta"
      [] phase = "meta"             -> "kink"
      [] phase = "kink"             -> IF STATUS_FINAL \in tags THEN "upload" ELSE "done"
      [] phase = "upload"           -> "done"

\* PHASES[phase](...).next_phase(post), on the primary names of the post's tags
NextPhase(phase, tags) ==
    CASE phase = "comm_status"      -> "our_characters"
      [] phase = "our_characters"   -> "other_characters"
      [] phase = "other_characters" -> "artist"
      [] phase = "artist"           -> "meta_commissions"
      [] phase = "meta_commissions" -> IF STATUS_WIP \in tags THEN "wip_tags" ELSE "meta"
      [] phase = "wip_tags"         -> "meta"
      [] phase = "meta"             -> "kink"
      [] phase = "kink"             -> IF STATUS_FINAL \in tags THEN "upload" ELSE "done"
      [] phase = "upload"           -> "done"

\* the tag states a walk is tried on
WalkTags == { STATUS_WIP, STATUS_FINAL, <<"solo">> }

WalkIdle ==
    /\ wTags = {}
    /\ wPath = <<>>

WalkInit ==
    /\ wTags \in SUBSET WalkTags
    /\ \E p \in PhaseNames : wPath = <<p>>

WalkAt == wPath[Len(wPath)]

\* next_phase applied once more; PHASES[...] has a class only for a
\* registered phase
WalkStep ==
    /\ wPath # <<>>
    /\ WalkAt \in PhaseNames
    /\ Len(wPath) <= MaxWalk
    /\ wPath' = Append(wPath, NextPhase(WalkAt, wTags))
    /\ UNCHANGED <<wTags, walkFrame>>

WalkNext == WalkStep

(***************************************************************************)
(* func_tagging.py: the tagging menu.  The session state lives in the      *)
(* hidden link of the menu message and nowhere else.                       *)
(***************************************************************************)
TAGGING_TAG_PREFIX == <<"tagging:needs_">>

\* TAGGING_TAG_FORMAT.format(phase)
TaggingTag(phase) == TAGGING_TAG_PREFIX \o <<phase>>

DEFAULT_TAGGING_TAGS ==
    { TaggingTag(PhaseOrder[i]) : i \in 1..Len(PhaseOrder) } \cup { TaggingTag("relations") }

\* str(n) and int(s) on the small numbers of post ids and pages
Digits == << "0", "1", "2", "3", "4", "5", "6", "7", "8", "9" >>
ToStr(n) == << Digits[n + 1] >>
ToInt(str) == CHOOSE n \in 0..(Len(Digits) - 1) : ToStr(n) = str

\* self.MAX_TAG_BUTTON_LINES: the lines of tag buttons on one page
MAX_TAG_BUTTON_LINES == 7

\* phase_cls.tag_buttons_per_line: the tag buttons on one line
TAG_BUTTONS_PER_LINE == 1

\* the tags of the catalog that the phases list, with their categories and
\* implications
ZEPHYR == <<"zephyr">>
DRAGON == <<"dragon">>
UPLOADED_E621 == <<"uploaded_to:", "e621">>

\* the tag an operator types in a reply to the menu
SOLO == <<"solo">>
ReplyTags == { SOLO }

\* one page of kinks: with DRAGON, the last by name, the kink phase has a
\* second page
Kinks == [ n \in 1..(MAX_TAG_BUTTON_LINES * TAG_BUTTONS_PER_LINE) |-> <<"collar_", Digits[n + 1]>> ]

\* "commission_" + str(n).zfill(5)
CommissionTag(n) == <<"commission_", "0", "0", "0", "0">> \o ToStr(n)
IsCommission(tag) == Len(tag) = 6 /\ tag[1] = "commission_"
\* int(primary_name.removeprefix("commission_"))
CommissionNumber(tag) == ToInt(SubSeq(tag, 6, 6))

\* the commission tags of a set of tags, in name order
RECURSIVE CommissionsFrom(_, _)
CommissionsFrom(n, tags) ==
    IF n >= Len(Digits) THEN <<>>
    ELSE (IF CommissionTag(n) \in tags THEN <<CommissionTag(n)>> ELSE <<>>)
         \o CommissionsFrom(n + 1, tags)

\* hoardbooru.search_tag("category:<category>"); cats has the category of
\* each tag made by a reply ("": there is no such tag)
TagsOfCategory(category, cats) ==
    ( CASE category = "our_characters" -> <<ZEPHYR>>
        [] category = "default"        -> Kinks \o <<DRAGON>>
        [] category = "meta-uploads"   -> <<UPLOADED_E621>>
        [] OTHER                       -> <<>> )
    \o (IF cats[SOLO] = category THEN <<SOLO>> ELSE <<>>)

Implications(tag) == IF tag = ZEPHYR THEN { DRAGON } ELSE {}

\* the button of NewCommissionButton, among the tag buttons
NEW_COMMISSION == <<"special:", "new_commission">>

\* phase.list_tags(post): the buttons the menu offers.  MetaCommission puts
\* the special button first, then the commission tags of the other posts of
\* the post's artists (no post of the catalog has an artist tag, and the
\* search without an artist finds every other post)
ListTags(phase, post, tags, cats) ==
    CASE phase = "comm_status"      -> <<STATUS_WIP, STATUS_FINAL>>
      [] phase = "our_characters"   -> TagsOfCategory("our_characters", cats)
      [] phase = "other_characters" -> TagsOfCategory("characters", cats)
      [] phase = "artist"           -> TagsOfCategory("artists", cats)
      [] phase = "meta_commissions" ->
            <<NEW_COMMISSION>>
            \o CommissionsFrom(0, UNION { tags[p] : p \in DOMAIN tags \ { post } })
      [] phase = "wip_tags"         -> TagsOfCategory("meta-wip", cats)
      [] phase = "meta"             -> TagsOfCategory("meta", cats)
      [] phase = "kink"             -> TagsOfCategory("default", cats)
      [] phase = "upload"           -> TagsOfCategory("meta-uploads", cats)

\* the tag buttons an operator presses
OfferedTags == { STATUS_WIP, STATUS_FINAL, ZEPHYR, DRAGON, UPLOADED_E621, SOLO }

\* phase.allow_ordering
AllowOrdering(phase) == phase \notin { "comm_status", "meta_commissions", "wip_tags" }

\* phase.new_tag_category(): "" stands for None
NewTagCategory(phase) ==
    CASE phase = "our_characters"   -> "our_characters"
      [] phase = "other_characters" -> "characters"
      [] phase = "artist"           -> "artists"
      [] phase = "meta_commissions" -> "meta-commissions"
      [] phase = "wip_tags"         -> "meta-wip"
      [] phase = "meta"             -> "meta"
      [] phase = "kink"             -> "default"
      [] OTHER                      -> ""

\* mutant of post_check: a rejected entry is let through without an error
PostCheck_NoError(phase, tags) ==
    IF phase # "comm_status" THEN [ raised |-> FALSE, tags |-> tags ]
    ELSE LET final == IF STATUS_FINAL \in tags THEN tags \ { TaggingTag("wip_tags") } ELSE tags
         IN  [ raised |-> FALSE,
               tags |-> IF STATUS_WIP \in tags THEN final \ { TaggingTag("upload") } ELSE final ]

\* mutant of post_check: the tagging tag of the phase the status skips stays
PostCheck_KeepsSkipped(phase, tags) ==
    IF phase # "comm_status" THEN [ raised |-> FALSE, tags |-> tags ]
    ELSE [ raised |-> (STATUS_FINAL \in tags) = (STATUS_WIP \in tags), tags |-> tags ]

\* phase.post_check(post): whether it raises ValueError, and the tags it
\* leaves on the post
PostCheck(phase, tags) ==
    IF phase # "comm_status" THEN [ raised |-> FALSE, tags |-> tags ]
    ELSE LET is_final == STATUS_FINAL \in tags
             is_wip   == STATUS_WIP \in tags
             final    == IF is_final THEN tags \ { TaggingTag("wip_tags") } ELSE tags
         IN  IF is_final /\ is_wip THEN [ raised |-> TRUE, tags |-> tags ]
             ELSE IF ~is_final /\ ~is_wip THEN [ raised |-> TRUE, tags |-> tags ]
             ELSE [ raised |-> FALSE,
                    tags |-> IF is_wip THEN final \ { TaggingTag("upload") } ELSE final ]

\* dict[key] and dict[key] = value on the items of a dict
Get(items, key) == Lookup(items, key)

Set(items, key, value) ==
    IF \E i \in 1..Len(items) : items[i][1] = key
    THEN [ i \in 1..Len(items) |-> IF items[i][1] = key THEN <<key, value>> ELSE items[i] ]
    ELSE Append(items, <<key, value>>)

Has(items, key) == \E i \in 1..Len(items) : items[i][1] = key

AllKeys == [ given |-> FALSE, list |-> <<>> ]

\* a message: its kind, its link entities, and its buttons: the phase of the
\* next-phase button ("done" for Done, "none" without one), the tag buttons
\* of the page, the ticked ones, whether the order buttons are there, and
\* the pages the Prev page and Next page buttons lead to
NoMessage ==
    [ kind |-> "none", entities |-> <<>>, next |-> "none",
      tags |-> {}, ticked |-> {}, order_buttons |-> FALSE, pages |-> {} ]

\* tag_button_lines[page_num * MAX_TAG_BUTTON_LINES : (page_num + 1) * MAX_TAG_BUTTON_LINES]
\* of the lines of tag_buttons_per_line buttons each.  The popularity cache
\* is left out: every tag has popularity 0, and sorted() by
\* (-popularity, name) and by name are the order of list_tags
PageOf(buttons, page_num) ==
    LET size == MAX_TAG_BUTTON_LINES * TAG_BUTTONS_PER_LINE
    IN  { buttons[i] : i \in { j \in 1..Len(buttons) :
                                  j > page_num * size /\ j <= (page_num + 1) * size } }

\* len(tag_button_lines)
LineCount(buttons) ==
    (Len(buttons) + TAG_BUTTONS_PER_LINE - 1) \div TAG_BUTTONS_PER_LINE

\* the error post_tag_phase_menu raises before it edits the message:
\* menu_data[key] of a key the dict lacks, PHASES[...] of a phase that is
\* not registered
RenderError(menu_data) ==
    IF ~Has(menu_data, <<"tag_phase">>) THEN "KeyError"
    ELSE IF Get(menu_data, <<"tag_phase">>)[1] \notin PhaseNames THEN "KeyError"
    ELSE IF ~Has(menu_data, <<"post_id">>) THEN "KeyError"
    ELSE IF AllowOrdering(Get(menu_data, <<"tag_phase">>)[1]) /\ ~Has(menu_data, <<"order">>)
         THEN "KeyError"
    ELSE IF ~Has(menu_data, <<"page">>) THEN "KeyError"
    ELSE "none"

\* what post_tag_phase_menu(msg, menu_data) edits the message to: the hidden
\* link with the whole menu_data, the buttons of the page, and the
\* next-phase button labelled with next_phase of the post as it is now
PostTagPhaseMenu(menu_data, tags, cats) ==
    LET phase    == Get(menu_data, <<"tag_phase">>)[1]
        post     == ToInt(Get(menu_data, <<"post_id">>))
        page_num == ToInt(Get(menu_data, <<"page">>))
        buttons  == ListTags(phase, post, tags, cats)
        shown    == PageOf(buttons, page_num)
    IN  [ kind |-> "menu",
          entities |-> << HiddenData(menu_data, AllKeys) >>,
          next |-> NextPhase(phase, tags[post]),
          tags |-> shown,
          ticked |-> shown \cap tags[post],
          order_buttons |-> AllowOrdering(phase),
          pages |-> (IF page_num > 0 THEN { page_num - 1 } ELSE {})
                    \cup (IF LineCount(buttons) > (page_num + 1) * MAX_TAG_BUTTON_LINES
                          THEN { page_num + 1 } ELSE {}) ]

\* the last event: the handler, whether post_check raised and the bot told
\* the operator, the error the handler ended with ("none": it returned or
\* stopped the propagation), whether it edited the message, and the message
\* it found
NoEvent ==
    [ kind |-> "none", raised |-> FALSE, reported |-> FALSE, error |-> "none",
      edited |-> FALSE, before |-> NoMessage ]

Outcome(kind, raised, reported, error, edited) ==
    [ kind |-> kind, raised |-> raised, reported |-> reported, error |-> error,
      edited |-> edited, before |-> mMsg ]

Handled(kind, raised, reported) == Outcome(kind, raised, reported, "none", TRUE)

TagIdle ==
    /\ gTags = [ p \in PostIds |-> {} ]
    /\ gCat = [ t \in ReplyTags |-> "" ]
    /\ mMsg = NoMessage
    /\ tEvt = NoEvent

\* the posts are fresh from an upload, or were tagged long ago
TagInitial ==
    /\ \E tags \in { DEFAULT_TAGGING_TAGS, {} } : gTags = [ p \in PostIds |-> tags ]
    /\ gCat = [ t \in ReplyTags |-> "" ]
    /\ mMsg = NoMessage
    /\ tEvt = NoEvent

\* mutant of the menu_data of a new session: the order is left out
NewSession_NoOrder(post) ==
    << << <<"post_id">>, ToStr(post) >>,
       << <<"tag_phase">>, <<"comm_status">> >>,
       << <<"page">>, ToStr(0) >> >>

\* mutant: the new session starts behind the commission status
NewSession_SkipsStatus(post) ==
    << << <<"post_id">>, ToStr(post) >>,
       << <<"tag_phase">>, <<"our_characters">> >>,
       << <<"page">>, ToStr(0) >>,
       << <<"order">>, <<"popular">> >> >>

\* the menu_data of a new session
NewSession(post) ==
    << << <<"post_id">>, ToStr(post) >>,
       << <<"tag_phase">>, <<"comm_status">> >>,
       << <<"page">>, ToStr(0) >>,
       << <<"order">>, <<"popular">> >> >>

\* tag_init: "/tag <id>" starts the workflow on a post
TagInit(post) ==
    /\ mMsg.kind = "none"
    /\ mMsg' = PostTagPhaseMenu(NewSession(post), gTags, gCat)
    /\ tEvt' = Handled("init", FALSE, FALSE)
    /\ UNCHANGED <<gTags, gCat, tagFrame>>

\* parse_hidden_data(event_msg): None without a hidden link, else the dict
SessionAbsent == HiddenLinkIndex(mMsg.entities) = 0
MenuData == IF SessionAbsent THEN <<>> ELSE ParseHiddenItems(mMsg.entities)
MenuPhase == Get(MenuData, <<"tag_phase">>)[1]
MenuPost == ToInt(Get(MenuData, <<"post_id">>))

\* the error of menu_data[key]: None is not subscriptable, a dict may lack
\* the key
Subscript(key) ==
    IF SessionAbsent THEN "TypeError"
    ELSE IF ~Has(MenuData, key) THEN "KeyError"
    ELSE "none"

\* a handler ends with an error before it changed anything
Fails(kind, error) ==
    /\ tEvt' = Outcome(kind, FALSE, FALSE, error, FALSE)
    /\ UNCHANGED <<gTags, gCat, mMsg, tagFrame>>

\* the call of post_tag_phase_menu that ends a handler: the message is
\* edited, or the error is the handler's
Renders(kind, menu_data, tags, cats, raised) ==
    IF RenderError(menu_data) # "none"
    THEN /\ mMsg' = mMsg
         /\ tEvt' = Outcome(kind, raised, raised, RenderError(menu_data), FALSE)
    ELSE /\ mMsg' = PostTagPhaseMenu(menu_data, tags, cats)
         /\ tEvt' = Outcome(kind, raised, raised, "none", TRUE)

\* the tags tag_callback leaves on a post: add_tags is the tag and its
\* implications; all of them are removed when the post has the tag, and
\* added when it has not
ToggledTags(tags, tag) ==
    LET add == { tag } \cup Implications(tag)
    IN  IF tag \in tags THEN tags \ add ELSE tags \cup add

\* tag_callback: a tag button is pressed; the tag and the tags it implies
\* are added, or removed when the post has the tag
TagCallback(tag) ==
    /\ mMsg.kind = "menu"
    /\ tag \in mMsg.tags
    /\ tag # NEW_COMMISSION
    /\ IF Subscript(<<"post_id">>) # "none" THEN Fails("tag", Subscript(<<"post_id">>))
       ELSE LET tags == ToggledTags(gTags[MenuPost], tag)
                cat  == [ gTags EXCEPT ![MenuPost] = tags ]
            IN  /\ gTags' = cat
                /\ Renders("tag", MenuData, cat, gCat, FALSE)
                /\ UNCHANGED <<gCat, tagFrame>>

\* the tags of category meta-commissions among some tags
CommissionsIn(tags, cats) ==
    { t \in tags : IsCommission(t) \/ (t \in ReplyTags /\ cats[t] = "meta-commissions") }

\* mutant of on_press: the post gets no commission tag
OnPress_NoTag(post, tags, cats) == [ error |-> "none", stopped |-> FALSE, tags |-> tags ]

\* mutant of on_press: the post gets the latest commission tag in use
OnPress_LatestAgain(post, tags, cats) ==
    LET used   == CommissionsIn(UNION { tags[p] : p \in DOMAIN tags }, cats)
        number == IF used = {} THEN 0
                  ELSE CHOOSE n \in 0..(Len(Digits) - 1) :
                         /\ CommissionTag(n) \in used
                         /\ \A t \in used : IsCommission(t) => CommissionNumber(t) <= n
    IN  IF CommissionsIn(tags[post], cats) # {}
        THEN [ error |-> "none", stopped |-> TRUE, tags |-> tags ]
        ELSE IF \E t \in used : ~IsCommission(t)
        THEN [ error |-> "ValueError", stopped |-> FALSE, tags |-> tags ]
        ELSE [ error |-> "none", stopped |-> FALSE,
               tags |-> [ tags EXCEPT ![post] = @ \cup { CommissionTag(IF number = 0 THEN 1 ELSE number) } ] ]

\* NewCommissionButton.on_press(post, press_evt): a post with a commission
\* is left alone and the propagation stopped; else the commission tag after
\* the latest one in use is put on the post.  The latest is the first of the
\* used tags of the category in descending name order, and int() of a name
\* that is no commission number is a ValueError
OnPress(post, tags, cats) ==
    LET used   == CommissionsIn(UNION { tags[p] : p \in DOMAIN tags }, cats)
        number == IF used = {} THEN 0
                  ELSE CHOOSE n \in 0..(Len(Digits) - 1) :
                         /\ CommissionTag(n) \in used
                         /\ \A t \in used : IsCommission(t) => CommissionNumber(t) <= n
    IN  IF CommissionsIn(tags[post], cats) # {}
        THEN [ error |-> "none", stopped |-> TRUE, tags |-> tags ]
        ELSE IF \E t \in used : ~IsCommission(t)
        THEN [ error |-> "ValueError", stopped |-> FALSE, tags |-> tags ]
        ELSE [ error |-> "none", stopped |-> FALSE,
               tags |-> [ tags EXCEPT ![post] = @ \cup { CommissionTag(number + 1) } ] ]

\* tag_callback on the special button: callback = on_press;
\* "await callback(post, event)" runs on_press, which is no coroutine
\* function and returns None, and awaiting None is a TypeError raised before
\* post_tag_phase_menu is called
TagSpecial ==
    /\ mMsg.kind = "menu"
    /\ NEW_COMMISSION \in mMsg.tags
    /\ IF Subscript(<<"post_id">>) # "none" THEN Fails("special", Subscript(<<"post_id">>))
       ELSE LET pressed == OnPress(MenuPost, gTags, gCat)
            IN  /\ gTags' = pressed.tags
                /\ mMsg' = mMsg
                /\ tEvt' = Outcome("special", FALSE, FALSE,
                                   IF pressed.stopped THEN "none"
                                   ELSE IF pressed.error # "none" THEN pressed.error
                                   ELSE "TypeError", FALSE)
                /\ UNCHANGED <<gCat, tagFrame>>

\* the message without buttons and without a link that a menu ends as
ClosedMessage(kind) == [ NoMessage EXCEPT !.kind = kind ]

\* mutant of the Cancel button: the phase is marked complete first
TagPhaseCancel_MarksPhase ==
    /\ mMsg.kind = "menu"
    /\ IF Subscript(<<"post_id">>) # "none" THEN Fails("cancel", Subscript(<<"post_id">>))
       ELSE /\ gTags' = [ gTags EXCEPT ![MenuPost] = @ \ { TaggingTag(MenuPhase) } ]
            /\ mMsg' = ClosedMessage("cancelled")
            /\ tEvt' = Handled("cancel", FALSE, FALSE)
            /\ UNCHANGED <<gCat, tagFrame>>

\* tag_phase_callback, the Cancel button
TagPhaseCancel ==
    /\ mMsg.kind = "menu"
    /\ IF Subscript(<<"post_id">>) # "none" THEN Fails("cancel", Subscript(<<"post_id">>))
       ELSE /\ mMsg' = ClosedMessage("cancelled")
            /\ tEvt' = Handled("cancel", FALSE, FALSE)
            /\ UNCHANGED <<gTags, gCat, tagFrame>>

\* mutant of the completion message: it keeps the hidden link of the menu
CompletionMessage_KeepsLink(msg) == [ ClosedMessage("complete") EXCEPT !.entities = msg.entities ]

\* "Tagging complete!\nPost is <url>", buttons=None: the text has no link
\* entity (a bare URL is no MessageEntityTextUrl)
CompletionMessage(msg) == ClosedMessage("complete")

\* tag_phase_callback, the Done button: the phase's tagging tag is removed
\* and the menu closed
TagPhaseDone ==
    /\ mMsg.kind = "menu"
    /\ mMsg.next = "done"
    /\ IF Subscript(<<"post_id">>) # "none" THEN Fails("done", Subscript(<<"post_id">>))
       ELSE IF Subscript(<<"tag_phase">>) # "none"
       THEN Fails("done", Subscript(<<"tag_phase">>))
       ELSE /\ gTags' = [ gTags EXCEPT ![MenuPost] = @ \ { TaggingTag(MenuPhase) } ]
            /\ mMsg' = CompletionMessage(mMsg)
            /\ tEvt' = Handled("done", FALSE, FALSE)
            /\ UNCHANGED <<gCat, tagFrame>>

\* tag_phase_callback, the Next tagging phase button: the phase's tagging
\* tag is removed, post_check runs (a ValueError is caught and reported in a
\* reply), then the menu of the button's phase is posted with page 0
TagPhaseNext ==
    /\ mMsg.kind = "menu"
    /\ mMsg.next \in PhaseNames
    /\ IF Subscript(<<"post_id">>) # "none" THEN Fails("next", Subscript(<<"post_id">>))
       ELSE IF Subscript(<<"tag_phase">>) # "none"
       THEN Fails("next", Subscript(<<"tag_phase">>))
       ELSE LET marked == gTags[MenuPost] \ { TaggingTag(MenuPhase) }
                check  == PostCheck(MenuPhase, marked)
                cat    == [ gTags EXCEPT ![MenuPost] = check.tags ]
                data   == Set(Set(MenuData, <<"tag_phase">>, <<mMsg.next>>),
                              <<"page">>, ToStr(0))
            IN  /\ gTags' = cat
                /\ Renders("next", data, cat, gCat, check.raised)
                /\ UNCHANGED <<gCat, tagFrame>>

\* mutant of tag_order_callback: the page is kept
TagOrderCallback_KeepsPage(order) ==
    /\ mMsg.kind = "menu"
    /\ mMsg.order_buttons
    /\ IF SessionAbsent THEN Fails("order", "TypeError")
       ELSE /\ Renders("order", Set(MenuData, <<"order">>, <<order>>), gTags, gCat, FALSE)
            /\ UNCHANGED <<gTags, gCat, tagFrame>>

\* tag_order_callback: one of the two order buttons, shown when the phase
\* allows ordering
TagOrderCallback(order) ==
    /\ mMsg.kind = "menu"
    /\ mMsg.order_buttons
    /\ IF SessionAbsent THEN Fails("order", "TypeError")
       ELSE /\ Renders("order", Set(Set(MenuData, <<"order">>, <<order>>), <<"page">>, ToStr(0)),
                       gTags, gCat, FALSE)
            /\ UNCHANGED <<gTags, gCat, tagFrame>>

\* tag_page_callback: the Prev page or the Next page button
TagPageCallback(page) ==
    /\ mMsg.kind = "menu"
    /\ page \in mMsg.pages
    /\ IF SessionAbsent THEN Fails("page", "TypeError")
       ELSE /\ Renders("page", Set(MenuData, <<"page">>, ToStr(page)), gTags, gCat, FALSE)
            /\ UNCHANGED <<gTags, gCat, tagFrame>>

\* filter_reply_to_menu_with_fields(evt, fields): the message replied to
\* has hidden data with every one of the fields
FilterReplyToMenuWithFields(msg, fields) ==
    /\ HiddenLinkIndex(msg.entities) # 0
    /\ \A f \in fields : Has(ParseHiddenItems(msg.entities), f)

TagMenuFields == { <<"post_id">>, <<"tag_phase">>, <<"page">>, <<"order">> }

\* the category of a tag the catalog creates without one
DEFAULT_TAG_CATEGORY == "default"

\* getTag(tag_name), and createTag(tag_name) when the catalog has no such
\* tag: createTag makes the tag in the catalog at once
FetchedOrCreated(cats, tag) ==
    [ cats EXCEPT ![tag] = IF @ = "" THEN DEFAULT_TAG_CATEGORY ELSE @ ]

\* add_tag_with_reply: the operator replies to the menu with a tag name.
\* The tag is fetched or created; in a phase without a category for new
\* tags the bot says so and stops; else the tag gets the phase's category
\* and is put on the post, and the menu is posted again
AddTagWithReply(tag) ==
    /\ mMsg.kind # "none"
    /\ IF ~FilterReplyToMenuWithFields(mMsg, TagMenuFields)
       THEN /\ tEvt' = Outcome("ignored", FALSE, FALSE, "none", FALSE)
            /\ UNCHANGED <<gTags, gCat, mMsg, tagFrame>>
       ELSE IF MenuPhase \notin PhaseNames
       THEN /\ tEvt' = Outcome("reply", FALSE, FALSE, "KeyError", FALSE)
            /\ gCat' = FetchedOrCreated(gCat, tag)
            /\ UNCHANGED <<gTags, mMsg, tagFrame>>
       ELSE IF NewTagCategory(MenuPhase) = ""
       THEN /\ tEvt' = Outcome("reply", FALSE, TRUE, "none", FALSE)
            /\ gCat' = FetchedOrCreated(gCat, tag)
            /\ UNCHANGED <<gTags, mMsg, tagFrame>>
       ELSE LET cats == [ gCat EXCEPT ![tag] = NewTagCategory(MenuPhase) ]
                cat  == [ gTags EXCEPT ![MenuPost] = @ \cup { tag } ]
            IN  /\ gCat' = cats
                /\ gTags' = cat
                /\ Renders("reply", MenuData, cat, cats, FALSE)
                /\ UNCHANGED tagFrame

\* the events on a menu message
TagEvents ==
    \/ \E tag \in OfferedTags : TagCallback(tag)
    \/ TagSpecial
    \/ TagPhaseCancel
    \/ TagPhaseDone
    \/ TagPhaseNext
    \/ \E order \in { "popular", "alphabetical" } : TagOrderCallback(order)
    \/ \E page \in 0..1 : TagPageCallback(page)
    \/ \E tag \in ReplyTags : AddTagWithReply(tag)

TagNext ==
    \/ \E post \in PostIds : TagInit(post)
    \/ TagEvents

\* the post's status is changed outside the menu (the catalog's own web
\* interface, or a second menu on the post): the menu message stays as it is
OutsideEdit(post, tag) ==
    /\ mMsg.kind = "menu"
    /\ tEvt.kind # "outside"
    /\ gTags' = [ gTags EXCEPT ![post] = IF tag \in @ THEN @ \ { tag } ELSE @ \cup { tag } ]
    /\ tEvt' = Outcome("outside", FALSE, FALSE, "none", FALSE)
    /\ UNCHANGED <<gCat, mMsg, tagFrame>>

\* the workflow from phase to phase, with edits from outside between presses
EditNext ==
    \/ \E post \in PostIds : TagInit(post)
    \/ \E tag \in { STATUS_WIP, STATUS_FINAL } : TagCallback(tag)
    \/ TagPhaseNext
    \/ TagPhaseDone
    \/ \E post \in PostIds, tag \in { STATUS_WIP, STATUS_FINAL } : OutsideEdit(post, tag)

\* the workflow of one post, every button of the phases pressed as offered
WorkflowNext ==
    \/ \E post \in PostIds : TagInit(post)
    \/ \E tag \in OfferedTags : TagCallback(tag)
    \/ TagPhaseNext
    \/ TagPhaseDone

\* the workflow of one post with the Cancel button
CancelNext ==
    \/ WorkflowNext
    \/ TagPhaseCancel

\* posts of which some have a commission tag from an earlier press
CommissionInitial ==
    /\ gTags \in [ PostIds -> { DEFAULT_TAGGING_TAGS \cup c :
                                   c \in { {}, { CommissionTag(1) }, { CommissionTag(2) } } } ]
    /\ gCat = [ t \in ReplyTags |-> "" ]
    /\ mMsg = NoMessage
    /\ tEvt = NoEvent

\* the way to the commission phase and the presses and replies there
CommissionNext ==
    \/ \E post \in PostIds : TagInit(post)
    \/ TagPhaseNext
    \/ TagSpecial
    \/ \E tag \in ReplyTags : AddTagWithReply(tag)

\* a message whose hidden state is absent or lacks a field of the session
Incomplete(msg) == ~FilterReplyToMenuWithFields(msg, TagMenuFields)

\* a menu of a phase whose hidden link has only some of the session's fields
\* (none of them: the message has no link)
DamagedMenu(phase, fields, tags, cats) ==
    LET full == Set(NewSession(1), <<"tag_phase">>, <<phase>>)
        kept == SelectSeq(full, LAMBDA item : item[1] \in fields)
    IN  [ PostTagPhaseMenu(full, tags, cats) EXCEPT
            !.entities = IF kept = <<>> THEN <<>> ELSE << HiddenData(kept, AllKeys) >> ]

SessionInitial ==
    /\ gTags = [ p \in PostIds |-> DEFAULT_TAGGING_TAGS ]
    /\ gCat = [ t \in ReplyTags |-> "" ]
    /\ \E phase \in PhaseNames, fields \in (SUBSET TagMenuFields) \ { TagMenuFields } :
          mMsg = DamagedMenu(phase, fields, gTags, gCat)
    /\ tEvt = NoEvent

\* the events on a message while its hidden state is incomplete
SessionNext ==
    \/ \E tag \in OfferedTags : Incomplete(mMsg) /\ TagCallback(tag)
    \/ Incomplete(mMsg) /\ TagSpecial
    \/ Incomplete(mMsg) /\ TagPhaseCancel
    \/ Incomplete(mMsg) /\ TagPhaseDone
    \/ Incomplete(mMsg) /\ TagPhaseNext
    \/ \E order \in { "popular", "alphabetical" } : Incomplete(mMsg) /\ TagOrderCallback(order)
    \/ \E page \in 0..1 : Incomplete(mMsg) /\ TagPageCallback(page)
    \/ \E tag \in ReplyTags : Incomplete(mMsg) /\ AddTagWithReply(tag)

(***************************************************************************)
(* posted_state.py and func_unuploaded.py: the upload state of each post   *)
(* on each channel, the snapshot cache and the unuploaded menu.  The menu  *)
(* is the one a "/unuploaded" command without the "uploaded" word opens.   *)
(***************************************************************************)
\* the operator's TrustedUser.owner_tag and TrustedUser.upload_tag_infix
OWNER_TAG == "zephyr"
UPLOAD_TAG_INFIX == "zeph"

FINAL == <<"final">>

RECURSIVE Join(_, _)
Join(words, sep) ==
    IF words = <<>> THEN <<>>
    ELSE IF Len(words) = 1 THEN Head(words)
    ELSE Head(words) \o <<sep>> \o Join(Tail(words), sep)

\* f"uploaded_to:{callback_data}"
UploadTag(callback_data) == <<"uploaded_to:">> \o callback_data

\* the callback data of the four state buttons of a page menu
E621 == <<"e621">>
E621_NOT_POSTING == <<"e621", "_not_posting">>
FaData(user_infix) == <<user_infix, "_fa">>
FaNotPostingData(user_infix) == <<user_infix, "_not_posting">>

StateButtons(user_infix) ==
    { E621, E621_NOT_POSTING, FaData(user_infix), FaNotPostingData(user_infix) }

\* PostUploadState(post, user_infix); the post object keeps the tags it was
\* fetched with
PostUploadState(post_id, tags, user_infix) ==
    [ id |-> post_id, tags |-> tags, user_infix |-> user_infix ]

TagNames(state) == state.tags

E6Uploaded(state) == UploadTag(E621) \in TagNames(state)
E6NotUploading(state) == UploadTag(E621_NOT_POSTING) \in TagNames(state)
E6ToUpload(state) == ~E6Uploaded(state) /\ ~E6NotUploading(state)

E6State(state) ==
    IF E6Uploaded(state) THEN "Uploaded"
    ELSE IF E6NotUploading(state) THEN "Not uploading"
    ELSE "To upload"

FaUploaded(state) == UploadTag(FaData(state.user_infix)) \in TagNames(state)
FaNotUploading(state) == UploadTag(FaNotPostingData(state.user_infix)) \in TagNames(state)
FaToUpload(state) == ~FaUploaded(state) /\ ~FaNotUploading(state)

FaState(state) ==
    IF FaUploaded(state) THEN "Uploaded"
    ELSE IF FaNotUploading(state) THEN "Not uploading"
    ELSE "To upload"

ToUpload(state) == E6ToUpload(state) \/ FaToUpload(state)

\* [p.post for p in self.all_post_states if p.<property>], as post ids
RECURSIVE PostsWhere(_, _)
PostsWhere(states, chosen) ==
    IF states = <<>> THEN <<>>
    ELSE IF Head(states) \in chosen
         THEN <<Head(states).id>> \o PostsWhere(Tail(states), chosen)
         ELSE PostsWhere(Tail(states), chosen)

AllPosts(states) == [ i \in 1..Len(states) |-> states[i].id ]
E6UploadedPosts(states) == PostsWhere(states, { s \in Range(states) : E6Uploaded(s) })
E6ToUploadPosts(states) == PostsWhere(states, { s \in Range(states) : E6ToUpload(s) })
E6NotUploadingPosts(states) == PostsWhere(states, { s \in Range(states) : E6NotUploading(s) })
FaUploadedPosts(states) == PostsWhere(states, { s \in Range(states) : FaUploaded(s) })
FaToUploadPosts(states) == PostsWhere(states, { s \in Range(states) : FaToUpload(s) })
FaNotUploadingPosts(states) == PostsWhere(states, { s \in Range(states) : FaNotUploading(s) })
PostsToUpload(states) == PostsWhere(states, { s \in Range(states) : ToUpload(s) })

\* api.search_post(query): the posts that have a tag of every word of the
\* query, by id
SearchPost(query, catalog) ==
    LET words == { w \in Range(SplitOn(query, " ")) : w # <<>> }
        RECURSIVE From(_)
        From(p) == IF p > MaxPosts THEN <<>>
                   ELSE IF words \subseteq catalog[p] THEN <<p>> \o From(p + 1)
                   ELSE From(p + 1)
    IN  From(1)

\* PostsByUploadedState.list_by_state
ListByState(catalog, query, user_infix) ==
    LET found == SearchPost(query, catalog)
    IN  [ i \in 1..Len(found) |-> PostUploadState(found[i], catalog[found[i]], user_infix) ]

\* mutant of update_post: the states of the post are not removed
UpdatePost_KeepsOld(states, post_id, tags) ==
    Append(states, PostUploadState(post_id, tags, states[Len(states)].user_infix))

\* PostsByUploadedState.update_post, on a list that is not empty: the states
\* of that post are removed and a state of the post as it is now is appended,
\* with the user infix of the last state of the list
UpdatePost(states, post_id, tags) ==
    LET RECURSIVE Others(_)
        Others(list) == IF list = <<>> THEN <<>>
                        ELSE IF Head(list).id = post_id THEN Others(Tail(list))
                        ELSE <<Head(list)>> \o Others(Tail(list))
    IN  Append(Others(states),
               PostUploadState(post_id, tags, states[Len(states)].user_infix))

\* UploadStateCache.MAX_AGE, in hours
MAX_AGE == 1

\* self.cache[key] when key in self.cache, as a set
EntriesOf(cache, query, user_infix) ==
    { e \in cache : e.query = query /\ e.user_infix = user_infix }

\* mutant of the test below: a cached snapshot never expires
Scans_NeverExpires(cache, query, user_infix, refresh, now) ==
    EntriesOf(cache, query, user_infix) = {} \/ refresh

\* UploadStateCache.list_by_state: whether the call scans the catalog, that
\* is, does not return at "if entry.age() < self.MAX_AGE"
Scans(cache, query, user_infix, refresh, now) ==
    LET hit == EntriesOf(cache, query, user_infix)
    IN  ~(hit # {} /\ ~refresh /\ \A e \in hit : now - e.created < MAX_AGE)

\* UploadStateCache.list_by_state: the cache after the call
CacheListByState(cache, catalog, query, user_infix, refresh, now) ==
    IF ~Scans(cache, query, user_infix, refresh, now)
    THEN cache
    ELSE (cache \ EntriesOf(cache, query, user_infix)) \cup
         { [ query |-> query, user_infix |-> user_infix, created |-> now,
             posts |-> ListByState(catalog, query, user_infix) ] }

\* one list_by_state call as the event log keeps it
ListCall(cache, catalog, query, user_infix, refresh, now) ==
    [ query |-> query, user_infix |-> user_infix, refresh |-> refresh, now |-> now,
      catalog |-> catalog, before |-> cache,
      scanned |-> Scans(cache, query, user_infix, refresh, now),
      after |-> CacheListByState(cache, catalog, query, user_infix, refresh, now) ]

\* the PostsByUploadedState that call returns
CachedPosts(cache, query, user_infix) ==
    (CHOOSE e \in cache : e.query = query /\ e.user_infix = user_infix).posts

\* the entry's posts replaced: update_post changes the cached object in place
WithPosts(cache, query, user_infix, posts) ==
    { IF e.query = query /\ e.user_infix = user_infix THEN [ e EXCEPT !.posts = posts ] ELSE e :
        e \in cache }

NoUploadMenu == [ kind |-> "none", entities |-> <<>>, pages |-> {}, e6 |-> "", fa |-> "" ]

ListKeys == [ given |-> TRUE, list |-> << <<"query">>, <<"user_infix">>, <<"uploaded_only">> >> ]
PageKeys == [ given |-> TRUE, list |-> << <<"query">>, <<"user_infix">>, <<"uploaded_only">>,
                                          <<"post_id">> >> ]

\* what render_unuploaded_page_menu edits the message to, given the dict with
\* post_id set and the snapshot cache after its list_by_state call: the
\* hidden link, the Prev and Next buttons, the two state lines, and the
\* "#position/total" of the title line
PageMenu(menu_data, post_id, catalog, cache) ==
    LET user_infix == Get(menu_data, <<"user_infix">>)[1]
        status == PostUploadState(post_id, catalog[post_id], user_infix)
        posts  == Range(PostsToUpload(CachedPosts(cache, Get(menu_data, <<"query">>), user_infix)))
        prev   == { p \in posts : p < post_id }
        next   == { p \in posts : p > post_id }
    IN  [ kind |-> "page",
          entities |-> << HiddenData(menu_data, PageKeys) >>,
          pages |-> { p \in prev : \A q \in prev : q <= p } \cup
                    { p \in next : \A q \in next : p <= q },
          e6 |-> E6State(status),
          fa |-> FaState(status),
          position |-> Cardinality(prev) + 1,
          total |-> Cardinality(posts) ]

NoUploadEvent == [ kind |-> "none", post |-> 0, data |-> <<>>, before |-> {}, calls |-> <<>> ]

UploadHandled(kind, post, data, calls) ==
    [ kind |-> kind, post |-> post, data |-> data, before |-> uCache, calls |-> calls ]

UploadIdle ==
    /\ uMsg = NoUploadMenu
    /\ uCache = {}
    /\ uSteps = 0
    /\ uNow = 0
    /\ uEvt = NoUploadEvent

TagMenuIdle ==
    /\ gCat = [ t \in ReplyTags |-> "" ]
    /\ mMsg = NoMessage
    /\ tEvt = NoEvent

\* a tagging menu is open on post 1, in the upload phase
TagMenuAtUpload ==
    /\ gCat = [ t \in ReplyTags |-> "" ]
    /\ mMsg = PostTagPhaseMenu(<< << <<"post_id">>, ToStr(1) >>,
                                  << <<"tag_phase">>, <<"upload">> >>,
                                  << <<"page">>, ToStr(0) >>,
                                  << <<"order">>, <<"popular">> >> >>, gTags, gCat)
    /\ tEvt = NoEvent

\* the catalog before any button is pressed: final posts of the operator, a
\* post already on e621, a post of nobody; no post has both markers of a
\* channel
UploadInitial ==
    /\ gTags \in [ PostIds -> { { FINAL, <<OWNER_TAG>> },
                                { FINAL, <<OWNER_TAG>>, UploadTag(E621) },
                                { FINAL } } ]
    /\ uMsg = NoUploadMenu
    /\ uCache = {}
    /\ uSteps = 0
    /\ uNow = 0
    /\ uEvt = NoUploadEvent

\* one more event is handled
UploadStep ==
    /\ uSteps < MaxSteps
    /\ uSteps' = uSteps + 1

\* the media of the page: load_cache(post_id, False), and store_in_cache(post,
\* False) when there is no entry
FetchMedia(post) ==
    IF LoadCache(table, post, FALSE).found
    THEN UNCHANGED <<table, nextMedia, callLog>>
    ELSE LET how   == DeliveredAs(postMime[post], FALSE)
             entry == CacheEntry(post, postMime[post], how.is_photo, nextMedia,
                                 Len(callLog) + 1)
         IN  /\ table' = SaveEntries(table, entry, how.sent_as_file)
             /\ callLog' = Append(callLog, [ post |-> post, v |-> FALSE,
                                             media |-> nextMedia, before |-> table,
                                             sent_as_file |-> how.sent_as_file ])
             /\ nextMedia' = nextMedia + 1

\* list_unuploaded: "/unuploaded" and the words after it.  The snapshot is
\* listed afresh; min() of an empty list raises and no menu is sent
ListUnuploaded(words) ==
    /\ UploadStep
    /\ LET with_final == IF FINAL \in Range(words) THEN words ELSE Append(words, FINAL)
           query_tags == IF <<OWNER_TAG>> \in Range(with_final) THEN with_final
                         ELSE Append(with_final, <<OWNER_TAG>>)
           query_str  == Join(query_tags, " ")
           call       == ListCall(uCache, gTags, query_str, UPLOAD_TAG_INFIX, TRUE, uNow)
           cache      == call.after
           in_search  == Range(PostsToUpload(CachedPosts(cache, query_str, UPLOAD_TAG_INFIX)))
           menu_data  == << << <<"query">>, query_str >>,
                            << <<"user_infix">>, <<UPLOAD_TAG_INFIX>> >>,
                            << <<"uploaded_only">>, <<"False">> >> >>
       IN  /\ uCache' = cache
           /\ uEvt' = UploadHandled("list", 0, <<>>, <<call>>)
           /\ uMsg' = IF in_search = {} THEN uMsg
                      ELSE [ kind |-> "list",
                             entities |-> << HiddenData(menu_data, ListKeys) >>,
                             pages |-> { p \in in_search : \A q \in in_search : p <= q },
                             e6 |-> "", fa |-> "" ]
    /\ UNCHANGED <<gTags, uNow, cacheVars, uploadFrame>>

UploadMenuData == ParseHiddenItems(uMsg.entities)

\* unuploaded_page_callback with a post id: the button of the list message,
\* Prev or Next of a page, or Return to page of a propose menu
UnuploadedPage(post) ==
    /\ UploadStep
    /\ uMsg.kind \in { "list", "page", "propose" }
    /\ post \in uMsg.pages
    /\ LET menu_data == Set(UploadMenuData, <<"post_id">>, ToStr(post))
           call  == ListCall(uCache, gTags, Get(menu_data, <<"query">>),
                             Get(menu_data, <<"user_infix">>)[1], FALSE, uNow)
           cache == call.after
       IN  /\ uCache' = cache
           /\ uMsg' = PageMenu(menu_data, post, gTags, cache)
           /\ uEvt' = UploadHandled("page", post, <<>>, <<call>>)
    /\ FetchMedia(post)
    /\ UNCHANGED <<gTags, uNow, postMime, uploadFrame>>

\* unuploaded_page_callback, the Cancel button
UnuploadedCancel ==
    /\ UploadStep
    /\ uMsg.kind = "page"
    /\ uMsg' = [ NoUploadMenu EXCEPT !.kind = "cancelled" ]
    /\ uEvt' = UploadHandled("cancel", 0, <<>>, <<>>)
    /\ UNCHANGED <<gTags, uCache, uNow, cacheVars, uploadFrame>>

\* upload_tag_callback: one of the four state buttons.  The tag of the button
\* is removed when the post has it and added when it has not, the post is
\* pushed, the snapshot gets the post as it is now and the page is rendered
UploadTagCallback(callback_data) ==
    /\ UploadStep
    /\ uMsg.kind = "page"
    /\ callback_data \in StateButtons(Get(UploadMenuData, <<"user_infix">>)[1])
    /\ LET query_str  == Get(UploadMenuData, <<"query">>)
           user_infix == Get(UploadMenuData, <<"user_infix">>)[1]
           post_id    == ToInt(Get(UploadMenuData, <<"post_id">>))
           tag_name   == UploadTag(callback_data)
           tags       == IF tag_name \in gTags[post_id] THEN gTags[post_id] \ { tag_name }
                         ELSE gTags[post_id] \cup { tag_name }
           catalog    == [ gTags EXCEPT ![post_id] = tags ]
           call       == ListCall(uCache, catalog, query_str, user_infix, FALSE, uNow)
           listed     == call.after
           states     == CachedPosts(listed, query_str, user_infix)
           cache      == WithPosts(listed, query_str, user_infix,
                                   UpdatePost(states, post_id, tags))
           again      == ListCall(cache, catalog, query_str, user_infix, FALSE, uNow)
       IN  /\ gTags' = catalog
           /\ IF states = <<>>
              THEN /\ uCache' = listed          \* update_post raises ValueError
                   /\ uEvt' = UploadHandled("upload_tag", post_id, callback_data, <<call>>)
                   /\ UNCHANGED <<uMsg, table, nextMedia, callLog>>
              ELSE /\ uCache' = again.after
                   /\ uEvt' = UploadHandled("upload_tag", post_id, callback_data,
                                            <<call, again>>)
                   /\ uMsg' = PageMenu(UploadMenuData, post_id, catalog, again.after)
                   /\ FetchMedia(post_id)
    /\ UNCHANGED <<uNow, postMime, uploadFrame>>

\* an hour passes
HourPasses ==
    /\ UploadStep
    /\ uNow' = uNow + 1
    /\ UNCHANGED <<gTags, uMsg, uCache, uEvt, cacheVars, uploadFrame>>

UploadNext ==
    \/ \E words \in { <<>>, << <<OWNER_TAG>> >> } : ListUnuploaded(words)
    \/ \E post \in PostIds : UnuploadedPage(post)
    \/ UnuploadedCancel
    \/ \E data \in StateButtons(UPLOAD_TAG_INFIX) : UploadTagCallback(data)
    \/ HourPasses

\* the keys render_upload_propose_menu keeps, and a mutant that keeps every
\* key of the dict
ProposeKeys_Untrimmed == [ given |-> FALSE, list |-> <<>> ]

ProposeKeys == [ given |-> TRUE, list |-> PageKeys.list \o << <<"proposed_field">> >> ]

\* the keys render_upload_link_menu keeps
LinkKeys == [ given |-> TRUE, list |-> ProposeKeys.list \o << <<"upload_link_num">> >> ]

ProposedFields == { "title", "description", "tags", "alt_description", "links" }

\* what render_upload_propose_menu edits the message to: the hidden link, a
\* button per upload link when the field is links, and Return to page
ProposeMenu(items, field, link_count) ==
    LET menu_data == Set(items, <<"proposed_field">>, <<field>>)
    IN  [ kind |-> "propose",
          entities |-> << HiddenData(menu_data, ProposeKeys) >>,
          pages |-> { ToInt(Get(menu_data, <<"post_id">>)) },
          e6 |-> "", fa |-> "",
          links |-> IF field = "links" THEN 1..link_count ELSE {} ]

\* what render_upload_link_menu edits the message to
LinkMenu(items, link_num) ==
    LET menu_data == Set(items, <<"upload_link_num">>, link_num)
    IN  [ kind |-> "link",
          entities |-> << HiddenData(menu_data, LinkKeys) >>,
          pages |-> {}, e6 |-> "", fa |-> "", links |-> {} ]

\* one more event of the propose and link menus is handled
MenuStep ==
    /\ uSteps < MaxSteps + 2
    /\ uSteps' = uSteps + 1

\* upload_propose_callback: an edit button of the page menu, or Return to
\* upload links of the link menu.  link_count: the upload links the post
\* description holds when the menu is rendered
UploadProposeCallback(field, link_count) ==
    /\ MenuStep
    /\ \/ uMsg.kind = "page"
       \/ uMsg.kind = "link" /\ field = "links"
    /\ uMsg' = ProposeMenu(UploadMenuData, field, link_count)
    /\ uEvt' = UploadHandled("upload_propose", ToInt(Get(UploadMenuData, <<"post_id">>)),
                             uMsg.kind, <<>>)
    /\ UNCHANGED <<gTags, uCache, uNow, cacheVars, uploadFrame>>

\* propose_with_reply: a reply to the propose menu sets the field and the
\* menu is rendered again
ProposeWithReply(link_count) ==
    /\ MenuStep
    /\ uMsg.kind = "propose"
    /\ uMsg' = ProposeMenu(UploadMenuData, Get(UploadMenuData, <<"proposed_field">>)[1],
                           link_count)
    /\ uEvt' = UploadHandled("propose_reply", ToInt(Get(UploadMenuData, <<"post_id">>)),
                             uMsg.kind, <<>>)
    /\ UNCHANGED <<gTags, uCache, uNow, cacheVars, uploadFrame>>

\* upload_link_callback: a link button of the propose menu.  When the link
\* is no longer in the description, upload_links[...] raises IndexError and
\* the message stays
UploadLinkCallback(n, exists) ==
    /\ MenuStep
    /\ uMsg.kind = "propose"
    /\ n \in uMsg.links
    /\ uMsg' = IF exists THEN LinkMenu(UploadMenuData, ToStr(n)) ELSE uMsg
    /\ uEvt' = UploadHandled("upload_link", ToInt(Get(UploadMenuData, <<"post_id">>)),
                             uMsg.kind, <<>>)
    /\ UNCHANGED <<gTags, uCache, uNow, cacheVars, uploadFrame>>

\* upload_link_type_callback and upload_link_info_with_reply: the link is
\* changed and the link menu rendered again
UploadLinkTypeCallback ==
    /\ MenuStep
    /\ uMsg.kind = "link"
    /\ uMsg' = LinkMenu(UploadMenuData, Get(UploadMenuData, <<"upload_link_num">>))
    /\ uEvt' = UploadHandled("upload_link_type", ToInt(Get(UploadMenuData, <<"post_id">>)),
                             uMsg.kind, <<>>)
    /\ UNCHANGED <<gTags, uCache, uNow, cacheVars, uploadFrame>>

\* upload_link_delete_callback: the link is removed and the propose menu of
\* the links rendered
UploadLinkDeleteCallback(link_count) ==
    /\ MenuStep
    /\ uMsg.kind = "link"
    /\ uMsg' = ProposeMenu(UploadMenuData, "links", link_count)
    /\ uEvt' = UploadHandled("upload_link_delete", ToInt(Get(UploadMenuData, <<"post_id">>)),
                             uMsg.kind, <<>>)
    /\ UNCHANGED <<gTags, uCache, uNow, cacheVars, uploadFrame>>

\* the menus of the unuploaded workflow
MenuNext ==
    \/ ListUnuploaded(<<>>)
    \/ \E post \in PostIds : UnuploadedPage(post)
    \/ UnuploadedCancel
    \/ \E field \in ProposedFields, link_count \in 0..1 : UploadProposeCallback(field, link_count)
    \/ \E link_count \in 0..1 : ProposeWithReply(link_count)
    \/ \E n \in 1..1, exists \in BOOLEAN : UploadLinkCallback(n, exists)
    \/ UploadLinkTypeCallback
    \/ \E link_count \in 0..1 : UploadLinkDeleteCallback(link_count)

\* the unuploaded menu and a tagging menu side by side
UploadTagNext ==
    \/ UploadNext
    \/ \E tag \in OfferedTags : TagCallback(tag)

(***************************************************************************)
(* func_inline_search.py: the answer to an inline query.  The posts found  *)
(* are the posts of the catalog in id order (no post is a webm, which the  *)
(* loop would skip); which deliveries fail is the platform's choice.       *)
(***************************************************************************)
MAX_INLINE_ANSWERS == 30
MAX_INLINE_FRESH_MEDIA == 1

\* the last query: its planned answers, the posts store_in_cache was called
\* for, the table it found, and what was answered
NoQuery ==
    [ kind |-> "none", file |-> FALSE, failing |-> {}, planned |-> <<>>,
      stores |-> <<>>, before |-> <<>>, answered |-> FALSE, answers |-> <<>> ]

InlineIdle == iEvt = NoQuery

\* islice(search_post(query), offset, offset + MAX_INLINE_ANSWERS), offset 0
FoundPosts == [ i \in 1..(IF MaxPosts < MAX_INLINE_ANSWERS THEN MaxPosts ELSE MAX_INLINE_ANSWERS) |-> i ]

\* mutant of the loop: no cap on the fresh answers
RECURSIVE PlannedFrom_NoCap(_, _, _, _)
PlannedFrom_NoCap(i, num_fresh_media, tbl, file) ==
    IF i > Len(FoundPosts) THEN <<>>
    ELSE << [ post |-> FoundPosts[i], fresh |-> ~LoadCache(tbl, FoundPosts[i], file).found ] >>
         \o PlannedFrom_NoCap(i + 1, num_fresh_media, tbl, file)

\* the loop over zip(posts, cache_entries): an answer for every cached post
\* and for the first MAX_INLINE_FRESH_MEDIA posts that are not cached; the
\* loop breaks at the next post that is not cached
RECURSIVE PlannedFrom(_, _, _, _)
PlannedFrom(i, num_fresh_media, tbl, file) ==
    IF i > Len(FoundPosts) THEN <<>>
    ELSE IF LoadCache(tbl, FoundPosts[i], file).found
    THEN << [ post |-> FoundPosts[i], fresh |-> FALSE ] >>
         \o PlannedFrom(i + 1, num_fresh_media, tbl, file)
    ELSE IF num_fresh_media >= MAX_INLINE_FRESH_MEDIA THEN <<>>
    ELSE << [ post |-> FoundPosts[i], fresh |-> TRUE ] >>
         \o PlannedFrom(i + 1, num_fresh_media + 1, tbl, file)

\* asyncio.gather(*inline_answers) without return_exceptions: the results in
\* order, or the exception of an awaitable that raised (the other
\* awaitables run on)
Gather(planned, failing) ==
    IF \E i \in 1..Len(planned) : planned[i].post \in failing
    THEN [ raised |-> TRUE, results |-> <<>> ]
    ELSE [ raised |-> FALSE, results |-> [ i \in 1..Len(planned) |-> planned[i].post ] ]

\* the table after the store_in_cache calls of the fresh answers whose
\* delivery did not fail
RECURSIVE StoredFrom(_, _, _, _, _, _)
StoredFrom(i, planned, failing, file, tbl, media) ==
    IF i > Len(planned) THEN [ table |-> tbl, media |-> media ]
    ELSE IF planned[i].fresh /\ planned[i].post \notin failing
    THEN LET post  == planned[i].post
             how   == DeliveredAs(postMime[post], file)
             entry == CacheEntry(post, postMime[post], how.is_photo, media, media)
         IN  StoredFrom(i + 1, planned, failing, file,
                        SaveEntries(tbl, entry, how.sent_as_file), media + 1)
    ELSE StoredFrom(i + 1, planned, failing, file, tbl, media)

\* inline_search: the answers are planned, gathered and sent in one
\* event.answer call, which is never reached when gather raises.  The
\* deliveries of the posts in failing fail: send_file in store_in_cache for
\* a fresh post, the builder for a cached one whose handle expired
InlineSearch(file, failing) ==
    /\ nextMedia <= MaxCalls
    /\ LET planned  == PlannedFrom(1, 0, table, file)
           gathered == Gather(planned, failing)
           stored   == StoredFrom(1, planned, failing, file, table, nextMedia)
       IN  /\ table' = stored.table
           /\ nextMedia' = stored.media
           /\ iEvt' = [ kind |-> "query", file |-> file, failing |-> failing,
                        planned |-> [ i \in 1..Len(planned) |-> planned[i].post ],
                        stores |-> LET fresh == SelectSeq(planned, LAMBDA a : a.fresh)
                                   IN  [ i \in 1..Len(fresh) |-> fresh[i].post ],
                        before |-> table,
                        answered |-> ~gathered.raised,
                        answers |-> gathered.results ]
    /\ UNCHANGED <<postMime, callLog, inlineFrame>>

InlineNext == \E file \in BOOLEAN, failing \in SUBSET PostIds : InlineSearch(file, failing)

(***************************************************************************)
(* cache.py: one store_in_cache call on its own, for files of every kind   *)
(* and size                                                                *)
(***************************************************************************)
TG_MAX_PHOTO_FILE_SIZE == 10000000

\* an image format the catalog takes and PIL does not open
HEIC == [ type |-> "image", sub |-> "heic" ]
StoreMimes == Mimes \cup { HEIC }

\* dl_file.file_size, in bytes
FileSizes == { 1, TG_MAX_PHOTO_FILE_SIZE, TG_MAX_PHOTO_FILE_SIZE + 1 }

\* Image.open(img_path) in convert_image: whether PIL identifies the file
ConverterHandles(mime) == mime # HEIC

\* store_in_cache(post, send_uncompressed) on a table: the branch is chosen
\* by the mime type and the flag alone (file_size is only passed on to
\* send_file); in the photo branch convert_image raises for a file PIL does
\* not identify, before anything is sent or saved
StoreOutcome(tbl, post, mime, file_size, send_uncompressed, media) ==
    LET how   == DeliveredAs(mime, send_uncompressed)
        entry == CacheEntry(post, mime, how.is_photo, media, 1)
    IN  IF how.is_photo /\ ~ConverterHandles(mime)
        THEN [ done |-> TRUE, error |-> "UnidentifiedImageError", delivered |-> "nothing",
               table |-> tbl ]
        ELSE [ done |-> TRUE, error |-> "none",
               delivered |-> IF how.is_photo THEN "photo"
                             ELSE IF how.sent_as_file THEN "document" ELSE "media",
               table |-> SaveEntries(tbl, entry, how.sent_as_file) ]

StoreInitial ==
    /\ fIn \in [ kind : { "store" }, post : PostIds, mime : StoreMimes, size : FileSizes,
                  v : BOOLEAN ]
    /\ fOut = NoResult

StoreCall ==
    /\ fIn.kind = "store"
    /\ ~fOut.done
    /\ fOut' = StoreOutcome(<<>>, fIn.post, fIn.mime, fIn.size, fIn.v, 1)
    /\ UNCHANGED <<fIn, funcFrame>>

(***************************************************************************)
(* every operation that writes cache rows: store_in_cache itself, the      *)
(* inline search, /populate and the upload confirmation                    *)
(***************************************************************************)
\* the /populate terms: a count, and "file" or "-file"
PopulateFlags == { [ files |-> TRUE, photos |-> TRUE ], [ files |-> TRUE, photos |-> FALSE ],
                   [ files |-> FALSE, photos |-> TRUE ] }

\* store_in_cache(post, v) on a table, as a function
Stored(tbl, post, v, media) ==
    LET how == DeliveredAs(postMime[post], v)
    IN  SaveEntries(tbl, CacheEntry(post, postMime[post], how.is_photo, media, media),
                    how.sent_as_file)

\* the loop of populate_cache over the posts found: the photo variant, then
\* the file variant, each stored when load_cache finds no row, until
\* populate_count stores are done
RECURSIVE PopulateFrom(_, _, _, _, _, _)
PopulateFrom(i, populated, populate_count, flags, tbl, media) ==
    IF i > Len(FoundPosts) \/ populated >= populate_count
    THEN [ table |-> tbl, media |-> media ]
    ELSE LET post   == FoundPosts[i]
             photo  == flags.photos /\ ~LoadCache(tbl, post, FALSE).found
             tbl1   == IF photo THEN Stored(tbl, post, FALSE, media) ELSE tbl
             media1 == IF photo THEN media + 1 ELSE media
             done1  == IF photo THEN populated + 1 ELSE populated
             file   == /\ done1 < populate_count
                       /\ flags.files
                       /\ ~LoadCache(tbl1, post, TRUE).found
             tbl2   == IF file THEN Stored(tbl1, post, TRUE, media1) ELSE tbl1
             media2 == IF file THEN media1 + 1 ELSE media1
             done2  == IF file THEN done1 + 1 ELSE done1
         IN  IF done1 >= populate_count
             THEN [ table |-> tbl1, media |-> media1 ]
             ELSE PopulateFrom(i + 1, done2, populate_count, flags, tbl2, media2)

\* populate_cache.  The loop is reached when the cache_size call returns a
\* count other than the expected one; when it raises (cache_size of cache.py
\* takes no arguments) or reports a full cache, the handler ends with
\* nothing stored
PopulateCache(populate_count, flags, reaches_loop) ==
    /\ nextMedia <= MaxCalls
    /\ LET after == IF reaches_loop
                    THEN PopulateFrom(1, 0, populate_count, flags, table, nextMedia)
                    ELSE [ table |-> table, media |-> nextMedia ]
       IN  /\ table' = after.table
           /\ nextMedia' = after.media
    /\ UNCHANGED <<postMime, callLog, cacheFrame>>

\* tag_init: "/tag" with nothing behind it is answered with a request for the
\* id, and "/tag" with a word that is no number or no post raises in int()
\* or getPost; no menu message is sent
TagInitWithoutPost(post_id) ==
    /\ post_id \in { "", "x" }
    /\ tEvt' = Outcome("init", post_id # "", post_id = "",
                       IF post_id = "" THEN "none" ELSE "ValueError", FALSE)
    /\ UNCHANGED <<gTags, gCat, mMsg, tagFrame>>

\* the stores of upload_confirm: store_in_cache(post, False), and
\* store_in_cache(post, True) when load_cache(post, True) finds no row
ConfirmStored(tbl, post, media) ==
    LET first == Stored(tbl, post, FALSE, media)
        again == ~LoadCache(first, post, TRUE).found
    IN  [ table |-> IF again THEN Stored(first, post, TRUE, media + 1) ELSE first,
          media |-> IF again THEN media + 2 ELSE media + 1 ]

\* upload_confirm: Cancel deletes the question; sfw and nsfw create the
\* post (an id without a post so far), give it the default tagging tags,
\* store its media and open the tagging menu in a new message
UploadConfirm(upload_resp, post) ==
    IF upload_resp = "cancel"
    THEN /\ tEvt' = Outcome("upload_cancel", FALSE, FALSE, "none", FALSE)
         /\ UNCHANGED <<gTags, gCat, mMsg, tagFrame>>
    ELSE /\ upload_resp \in { "sfw", "nsfw" }
         /\ gTags[post] = {}
         /\ nextMedia <= MaxCalls
         /\ gTags' = [ gTags EXCEPT ![post] = DEFAULT_TAGGING_TAGS ]
         /\ table' = ConfirmStored(table, post, nextMedia).table
         /\ nextMedia' = ConfirmStored(table, post, nextMedia).media
         /\ mMsg' = PostTagPhaseMenu(NewSession(post), gTags', gCat)
         /\ tEvt' = Handled("upload_confirm", FALSE, FALSE)
         /\ UNCHANGED <<gCat, postMime, callLog, codecVars, taskVars, walkVars, uploadVars,
                        inlineVars, funcVars>>

\* one store_in_cache(post, v) call
StoreRows(post, v) ==
    /\ nextMedia <= MaxCalls
    /\ table' = Stored(table, post, v, nextMedia)
    /\ nextMedia' = nextMedia + 1
    /\ UNCHANGED <<postMime, callLog, cacheFrame>>

\* posts sent as photos and posts only a document can carry
RowsInitial ==
    /\ postMime \in [ PostIds -> { [ type |-> "image", sub |-> "png" ],
                                   [ type |-> "application", sub |-> "zip" ] } ]
    /\ table = <<>>
    /\ nextMedia = 1
    /\ callLog = <<>>

RowsNext ==
    \/ \E post \in PostIds, v \in BOOLEAN : StoreRows(post, v)
    \/ \E file \in BOOLEAN : InlineSearch(file, {})
    \/ \E n \in 0..2, flags \in PopulateFlags, reaches_loop \in BOOLEAN :
          PopulateCache(n, flags, reaches_loop)
    \/ \E post \in PostIds : UploadConfirm("sfw", post)

(***************************************************************************)
(* func_tagging.py, popularity_cache.py: the order of the tag buttons      *)
(***************************************************************************)
\* the code point of a character: Python compares strings by code point
CodePoint(c) ==
    CASE c = "B" -> 66
      [] c = "a" -> 97
      [] c = "b" -> 98

\* str < str
RECURSIVE StrLess(_, _)
StrLess(a, b) ==
    IF b = <<>> THEN FALSE
    ELSE IF a = <<>> THEN TRUE
    ELSE IF Head(a) = Head(b) THEN StrLess(Tail(a), Tail(b))
    ELSE CodePoint(Head(a)) < CodePoint(Head(b))

CandidateNames == { <<"a">>, <<"a", "b">>, <<"b">>, <<"B">> }

\* PopularityCache.filter(tag): the posts having the tag, every post for None
PopularityFilter(posts, tag) ==
    IF tag = <<>> THEN posts
    ELSE SelectSeq(posts, LAMBDA post : tag \in post)

\* PopularityCache.popularity(tag): the number of posts having the tag
Popularity(posts, tag) == Len(SelectSeq(posts, LAMBDA post : tag \in post))

\* tag.popularity after the loop over the popularity filters ([None] when
\* the phase gives none)
RECURSIVE SummedPopularity(_, _, _)
SummedPopularity(posts, filters, tag) ==
    IF filters = <<>> THEN 0
    ELSE Popularity(PopularityFilter(posts, Head(filters)), tag)
         + SummedPopularity(posts, Tail(filters), tag)

TagPopularity(posts, filters, tag) ==
    SummedPopularity(posts, IF filters = <<>> THEN << <<>> >> ELSE filters, tag)

\* mutant of the popular key: the popularity alone
PopularKeyLess_NoName(posts, filters, a, b) ==
    TagPopularity(posts, filters, a) > TagPopularity(posts, filters, b)

\* (-t.popularity, t.tag_name) < (-u.popularity, u.tag_name)
PopularKeyLess(posts, filters, a, b) ==
    \/ TagPopularity(posts, filters, a) > TagPopularity(posts, filters, b)
    \/ /\ TagPopularity(posts, filters, a) = TagPopularity(posts, filters, b)
       /\ StrLess(a, b)

\* the key comparison of the order chosen
KeyLess(order, posts, filters, a, b) ==
    IF order = "popular" THEN PopularKeyLess(posts, filters, a, b) ELSE StrLess(a, b)

\* sorted(tags, key=...): a stable sort, each tag put behind the tags
\* that are not greater
RECURSIVE InsertSorted(_, _, _, _, _)
InsertSorted(x, sorted, order, posts, filters) ==
    IF sorted = <<>> THEN <<x>>
    ELSE IF KeyLess(order, posts, filters, x, Head(sorted)) THEN <<x>> \o sorted
    ELSE <<Head(sorted)>> \o InsertSorted(x, Tail(sorted), order, posts, filters)

RECURSIVE Sorted(_, _, _, _)
Sorted(tags, order, posts, filters) ==
    IF tags = <<>> THEN <<>>
    ELSE InsertSorted(tags[Len(tags)],
                      Sorted(SubSeq(tags, 1, Len(tags) - 1), order, posts, filters),
                      order, posts, filters)

\* the tags in the order of the buttons, for a phase that allows ordering
OrderedTags(tags, order, posts, filters) ==
    IF order \in { "popular", "alphabetical" } THEN Sorted(tags, order, posts, filters)
    ELSE tags

\* the candidate list of a phase in any order, the posts of the popularity
\* cache, the popularity filters of the phase, the order chosen
OrderInitial ==
    /\ fIn \in [ kind : { "order" },
                  tags : { s \in SeqsUpTo(CandidateNames, 3) : NoRepeats(s) },
                  posts : [ 1..2 -> { {}, { <<"a">> }, { <<"a">>, <<"B">> },
                                      { <<"b">>, <<"a", "b">> } } ],
                  filters : { <<>>, << <<"a">> >> },
                  order : { "popular", "alphabetical" } ]
    /\ fOut = NoResult

OrderCall ==
    /\ fIn.kind = "order"
    /\ ~fOut.done
    /\ fOut' = [ done |-> TRUE,
                 tags |-> OrderedTags(fIn.tags, fIn.order, fIn.posts, fIn.filters) ]
    /\ UNCHANGED <<fIn, funcFrame>>

(***************************************************************************)
(* func_tagging.py: the pages of the tag buttons                           *)
(***************************************************************************)
\* s[a:b] of Python, a and b counted from 0 and cut at the ends
Slice(s, a, b) ==
    LET last == IF b < Len(s) THEN b ELSE Len(s)
    IN  IF a >= last THEN <<>> ELSE SubSeq(s, a + 1, last)

\* tag_button_lines: the buttons in lines of tag_buttons_per_line
ButtonLines(tag_buttons, per_line) ==
    [ k \in 1..((Len(tag_buttons) + per_line - 1) \div per_line) |->
        Slice(tag_buttons, (k - 1) * per_line, k * per_line) ]

\* the lines of one page
PageLines(lines, page_num) ==
    Slice(lines, page_num * MAX_TAG_BUTTON_LINES, (page_num + 1) * MAX_TAG_BUTTON_LINES)

RECURSIVE Flatten(_)
Flatten(lines) == IF lines = <<>> THEN <<>> ELSE Head(lines) \o Flatten(Tail(lines))

\* mutant: Next page is offered when the lines reach the end of the page
NextOffered_Inclusive(lines, page_num) ==
    Len(lines) >= (page_num + 1) * MAX_TAG_BUTTON_LINES

\* whether the Next page button is on the page
NextOffered(lines, page_num) ==
    Len(lines) > (page_num + 1) * MAX_TAG_BUTTON_LINES

\* the buttons per line of the phase and its candidates, in their order
PagesInitial ==
    /\ \E per_line \in 1..3 :
         \E n \in 0..(2 * per_line * MAX_TAG_BUTTON_LINES + 1) :
             fIn = [ kind |-> "pages", per_line |-> per_line, tag_buttons |-> [ i \in 1..n |-> i ] ]
    /\ fOut = NoResult

\* the menu is rendered: page 0 when the workflow starts, the following
\* page when Next page is pressed
RenderPage ==
    /\ fIn.kind = "pages"
    /\ fOut.done => fOut.next
    /\ LET page_num == IF fOut.done THEN fOut.page_num + 1 ELSE 0
           lines    == ButtonLines(fIn.tag_buttons, fIn.per_line)
           page     == Flatten(PageLines(lines, page_num))
       IN  fOut' = [ done |-> TRUE, page_num |-> page_num, page |-> page,
                     shown |-> (IF fOut.done THEN fOut.shown ELSE <<>>) \o page,
                     next |-> NextOffered(lines, page_num) ]
    /\ UNCHANGED <<fIn, funcFrame>>

\* the ways a tagging workflow starts
StartInitial ==
    /\ gTags \in [ PostIds -> { {}, DEFAULT_TAGGING_TAGS, { STATUS_FINAL } } ]
    /\ gCat = [ t \in ReplyTags |-> "" ]
    /\ mMsg = NoMessage
    /\ tEvt = NoEvent

StartNext ==
    \/ \E post \in PostIds : TagInit(post)
    \/ \E post_id \in { "", "x" } : TagInitWithoutPost(post_id)
    \/ \E upload_resp \in { "cancel", "sfw", "nsfw" }, post \in PostIds :
          UploadConfirm(upload_resp, post)

(***************************************************************************)
(* func_inline_search.py, inline_params.py: the search query and the       *)
(* caption of an inline query.  A text is a sequence of pieces: " ", ":",  *)
(* "-", and words that hold no other word ("caption" is one piece)         *)
(***************************************************************************)
FILE_TERMS == { <<"file">>, <<"doc">>, <<"uncompressed">>, <<"raw">> }
SPOILER_TERMS == { <<"spoiler">>, <<"spoil">>, <<"spoile">> }

\* str.lstrip(chars) and str.rstrip(chars)
RECURSIVE LStrip(_, _)
LStrip(s, chars) ==
    IF s # <<>> /\ Head(s) \in chars THEN LStrip(Tail(s), chars) ELSE s

RECURSIVE RStrip(_, _)
RStrip(s, chars) ==
    IF s # <<>> /\ s[Len(s)] \in chars THEN RStrip(SubSeq(s, 1, Len(s) - 1), chars) ELSE s

Strip(s) == RStrip(LStrip(s, { " " }), { " " })

\* str.split(): the words between the spaces, no empty word
Words(s) == SelectSeq(SplitOn(s, " "), LAMBDA w : w # <<>>)

\* the terms that are no modifier, in order
QueryTerms(words) ==
    SelectSeq(words, LAMBDA w : w \notin SPOILER_TERMS /\ w # <<"link">> /\ w \notin FILE_TERMS)

\* InlineParams().parse_inline_query(query): the query returned and the
\* parameters set
ParseInlineQuery(query) ==
    LET at      == FirstIndex(query, "caption")
        head    == IF at = 0 THEN query ELSE Strip(SubSeq(query, 1, at - 1))
        caption == IF at = 0 THEN [ some |-> FALSE, text |-> <<>> ]
                   ELSE [ some |-> TRUE,
                          text |-> RStrip(LStrip(SubSeq(query, at + 1, Len(query)), { ":", " " }),
                                          { " " }) ]
        words   == Words(head)
    IN  [ query   |-> Join(QueryTerms(words), " "),
          caption |-> caption,
          spoiler |-> \E i \in 1..Len(words) : words[i] \in SPOILER_TERMS,
          link    |-> \E i \in 1..Len(words) : words[i] = <<"link">>,
          file    |-> \E i \in 1..Len(words) : words[i] \in FILE_TERMS ]

\* "".join(f" -{tag}" for tag in user.blocked_tags)
RECURSIVE BlockedTerms(_)
BlockedTerms(blocked_tags) ==
    IF blocked_tags = <<>> THEN <<>>
    ELSE <<" ", "-", Head(blocked_tags)>> \o BlockedTerms(Tail(blocked_tags))

\* inline_search up to search_post: the blocked tags are appended to the
\* text, and the whole is parsed
SearchParams(text, blocked_tags) ==
    ParseInlineQuery(Strip(text) \o BlockedTerms(blocked_tags))

\* the caption of an answer: the link when asked for, the caption given
\* when there is one (an empty caption counts as none)
AnswerCaption(params) ==
    IF params.caption.some /\ params.caption.text # <<>> THEN params.caption.text
    ELSE IF params.link THEN <<"post_url">>
    ELSE <<>>

QueryWords ==
    { <<"dragon">>, <<"link">>, <<"file">>, <<"spoiler">>, <<"caption", ":">>, <<"hi">> }

\* the text a trusted user types, and the blocked tags of the user
QueryInitial ==
    /\ \E words \in SeqsUpTo(QueryWords, 3), blocked_tags \in { <<>>, <<"gore">>, <<"gore", "feral">> } :
          fIn = [ kind |-> "query", text |-> Join(words, " "), blocked_tags |-> blocked_tags ]
    /\ fOut = NoResult

InlineQuery ==
    /\ fIn.kind = "query"
    /\ ~fOut.done
    /\ LET params == SearchParams(fIn.text, fIn.blocked_tags)
       IN  fOut' = [ done |-> TRUE, params |-> params, caption |-> AnswerCaption(params) ]
    /\ UNCHANGED <<fIn, funcFrame>>

(***************************************************************************)
(* The sender of an event: which handlers look at it.  The button          *)
(* handlers of the tagging menu and upload_confirm are registered with a   *)
(* pattern only; upload_tag_callback looks the sender up; the handlers of  *)
(* messages are registered with from_users                                 *)
(***************************************************************************)
Senders == { "operator", "stranger" }

\* the tag button pressed: a tag of the upload phase
PressedTags == { UPLOADED_E621 }

\* self.bot.trusted_user_ids()
TrustedUserIds == { "operator" }

\* tag_callback, registered as events.CallbackQuery(pattern="tag:")
TagCallbackFrom(sender, tag) == TagCallback(tag)

\* tag_phase_callback, registered as events.CallbackQuery(pattern="tag_phase:")
TagPhaseNextFrom(sender) == TagPhaseNext

\* add_tag_with_reply, registered with from_users=trusted_user_ids()
AddTagWithReplyFrom(sender, tag) ==
    /\ sender \in TrustedUserIds
    /\ AddTagWithReply(tag)

\* upload_confirm, registered as events.CallbackQuery(pattern="upload:")
UploadConfirmFrom(sender, upload_resp, post) == UploadConfirm(upload_resp, post)

\* upload_tag_callback: returns when trusted_user_by_id(sender_id) is None
UploadTagCallbackFrom(sender, callback_data) ==
    /\ sender \in TrustedUserIds
    /\ UploadTagCallback(callback_data)

SenderNext ==
    \/ ListUnuploaded(<<>>)
    \/ \E post \in PostIds : UnuploadedPage(post)
    \/ \E sender \in Senders, tag \in PressedTags : TagCallbackFrom(sender, tag)
    \/ \E sender \in Senders : TagPhaseNextFrom(sender)
    \/ \E sender \in Senders, tag \in ReplyTags : AddTagWithReplyFrom(sender, tag)
    \/ \E sender \in Senders, post \in PostIds : UploadConfirmFrom(sender, "sfw", post)
    \/ \E sender \in Senders, data \in StateButtons(UPLOAD_TAG_INFIX) :
          UploadTagCallbackFrom(sender, data)

(***************************************************************************)
(* func_tagging.py: the same tag button pressed twice, on every tag set of *)
(* a post                                                                  *)
(***************************************************************************)
ToggleTags == { ZEPHYR, DRAGON, STATUS_WIP, SOLO }

ToggleInitial ==
    /\ fIn \in [ kind : { "toggle" }, tags : SUBSET ToggleTags, tag : ToggleTags ]
    /\ fOut = NoResult

\* one more press of the button: the post's tags after it
TogglePress ==
    /\ fIn.kind = "toggle"
    /\ IF fOut.done THEN fOut.presses < 2 ELSE TRUE
    /\ fOut' = [ done |-> TRUE,
                 presses |-> IF fOut.done THEN fOut.presses + 1 ELSE 1,
                 tags |-> ToggledTags(IF fOut.done THEN fOut.tags ELSE fIn.tags, fIn.tag) ]
    /\ UNCHANGED <<fIn, funcFrame>>

(***************************************************************************)
(* func_inline_search.py: the pages of one inline query.  The client sends *)
(* the query again with the next_offset of the last answer as its offset,  *)
(* and stops at an empty page.  The matching posts are fixed; a post is    *)
(* its place in the search result                                          *)
(***************************************************************************)
MaxFound == 3       \* posts matching the query
MaxPages == 4       \* pages the client asks for

Matching == 1..MaxFound

\* the loop over zip(posts, cache_entries) from place i to place last: a
\* webm is skipped, a cached post is answered, a post not cached is answered
\* while num_fresh_media is below the limit, and the loop breaks at the next
RECURSIVE AnswersFrom(_, _, _, _, _)
AnswersFrom(i, last, num_fresh_media, webms, cached) ==
    IF i > last THEN <<>>
    ELSE IF i \in webms THEN AnswersFrom(i + 1, last, num_fresh_media, webms, cached)
    ELSE IF i \in cached THEN <<i>> \o AnswersFrom(i + 1, last, num_fresh_media, webms, cached)
    ELSE IF num_fresh_media >= MAX_INLINE_FRESH_MEDIA THEN <<>>
    ELSE <<i>> \o AnswersFrom(i + 1, last, num_fresh_media + 1, webms, cached)

\* islice(post_generator, inline_offset, inline_offset + MAX_INLINE_ANSWERS)
\* and the loop over it
PageAnswers(inline_offset, webms, cached) ==
    LET last == IF inline_offset + MAX_INLINE_ANSWERS < MaxFound
                THEN inline_offset + MAX_INLINE_ANSWERS ELSE MaxFound
    IN  AnswersFrom(inline_offset + 1, last, 0, webms, cached)

NoPages == [ done |-> FALSE, pages |-> <<>>, offsets |-> <<0>>, cached |-> {} ]

PagingInitial ==
    /\ fIn \in [ kind : { "pages" }, webms : SUBSET Matching, cached : SUBSET Matching ]
    /\ fOut = [ NoPages EXCEPT !.cached = fIn.cached ]

\* inline_search at the offset the last answer gave: the page is answered
\* with next_offset = inline_offset + len(inline_answers); the posts answered
\* fresh are in the cache afterwards
InlinePage ==
    /\ fIn.kind = "pages"
    /\ Len(fOut.pages) < MaxPages
    /\ IF fOut.pages = <<>> THEN TRUE ELSE fOut.pages[Len(fOut.pages)] # <<>>
    /\ LET inline_offset  == fOut.offsets[Len(fOut.offsets)]
           inline_answers == PageAnswers(inline_offset, fIn.webms, fOut.cached)
           next_offset    == inline_offset + Len(inline_answers)
       IN  fOut' = [ done |-> TRUE,
                     pages |-> Append(fOut.pages, inline_answers),
                     offsets |-> Append(fOut.offsets, next_offset),
                     cached |-> fOut.cached \cup Range(inline_answers) ]
    /\ UNCHANGED <<fIn, funcFrame>>

(***************************************************************************)
(* func_upload.py: several presses on the buttons of one confirmation      *)
(* message.  Each press is handled by a task of its own; a task runs until *)
(* its next await, where another task may run                              *)
(***************************************************************************)
Responses == { "sfw", "nsfw", "cancel" }

NoPresses == [ done |-> FALSE, deleted |-> FALSE, created |-> [ t \in Tasks |-> 0 ] ]

\* the presses have arrived, the message is there, no post is in the catalog
ConfirmInitial ==
    /\ fIn \in [ kind : { "confirm" }, upload_resp : [ Tasks -> Responses ] ]
    /\ fOut = NoPresses
    /\ tpc = [ t \in Tasks |-> "pressed" ]
    /\ tmsg = [ t \in Tasks |-> 0 ]
    /\ treq = [ t \in Tasks |-> [ post |-> 1, v |-> FALSE ] ]
    /\ lastSaver = [ f \in BOOLEAN |-> 0 ]
    /\ postMime = [ post \in PostIds |-> [ type |-> "image", sub |-> "png" ] ]
    /\ table = <<>>
    /\ nextMedia = 1
    /\ callLog = <<>>

ConfirmFrame == <<treq, lastSaver, fIn, postMime, callLog, codecVars, walkVars, gCat, tEvt,
                  uploadVars, inlineVars>>

\* upload_confirm up to its first await.  Cancel: await event.delete().
\* Otherwise await event.get_message(): the message, or None once it is
\* deleted (tmsg: 1 for the message)
ConfirmPressed(t) ==
    /\ fIn.kind = "confirm"
    /\ tpc[t] = "pressed"
    /\ IF fIn.upload_resp[t] = "cancel"
       THEN /\ fOut' = [ fOut EXCEPT !.done = TRUE, !.deleted = TRUE ]
            /\ tpc' = [ tpc EXCEPT ![t] = "done" ]
            /\ UNCHANGED tmsg
       ELSE /\ tmsg' = [ tmsg EXCEPT ![t] = IF fOut.deleted THEN 0 ELSE 1 ]
            /\ tpc' = [ tpc EXCEPT ![t] = "got" ]
            /\ UNCHANGED fOut
    /\ UNCHANGED <<gTags, mMsg, table, nextMedia, ConfirmFrame>>

\* from get_message to the await of store_in_cache: parse_hidden_data of no
\* message raises; otherwise createPost makes a post (the lowest free id),
\* which gets the default tagging tags
ConfirmCreate(t) ==
    /\ fIn.kind = "confirm"
    /\ tpc[t] = "got"
    /\ IF tmsg[t] = 0
       THEN /\ tpc' = [ tpc EXCEPT ![t] = "failed" ]
            /\ UNCHANGED <<fOut, gTags>>
       ELSE /\ \E post \in PostIds : gTags[post] = {}
            /\ LET post == CHOOSE q \in PostIds :
                               gTags[q] = {} /\ \A r \in PostIds : gTags[r] = {} => q <= r
               IN  /\ gTags' = [ gTags EXCEPT ![post] = DEFAULT_TAGGING_TAGS ]
                   /\ fOut' = [ fOut EXCEPT !.done = TRUE, !.created[t] = post ]
            /\ tpc' = [ tpc EXCEPT ![t] = "created" ]
    /\ UNCHANGED <<tmsg, mMsg, table, nextMedia, ConfirmFrame>>

\* store_in_cache(post, False), and store_in_cache(post, True) when
\* load_cache(post.id_, True) finds nothing; then await event.delete()
ConfirmStore(t) ==
    /\ fIn.kind = "confirm"
    /\ tpc[t] = "created"
    /\ table' = ConfirmStored(table, fOut.created[t], nextMedia).table
    /\ nextMedia' = ConfirmStored(table, fOut.created[t], nextMedia).media
    /\ tpc' = [ tpc EXCEPT ![t] = "stored" ]
    /\ UNCHANGED <<fOut, tmsg, gTags, mMsg, ConfirmFrame>>

\* event.delete() has run: the message is gone; the link is replied and the
\* tagging menu of the post is opened
ConfirmDelete(t) ==
    /\ fIn.kind = "confirm"
    /\ tpc[t] = "stored"
    /\ fOut' = [ fOut EXCEPT !.deleted = TRUE ]
    /\ mMsg' = PostTagPhaseMenu(NewSession(fOut.created[t]), gTags, gCat)
    /\ tpc' = [ tpc EXCEPT ![t] = "done" ]
    /\ UNCHANGED <<tmsg, gTags, table, nextMedia, ConfirmFrame>>

ConfirmNext ==
    \/ \E t \in Tasks : ConfirmPressed(t)
    \/ \E t \in Tasks : ConfirmCreate(t)
    \/ \E t \in Tasks : ConfirmStore(t)
    \/ \E t \in Tasks : ConfirmDelete(t)

(***************************************************************************)
(* Specifications                                                          *)
(***************************************************************************)
vars == <<codecVars, cacheVars, taskVars, walkVars, tagVars, uploadVars, inlineVars, funcVars>>

InitCodec == CodecInit /\ CacheIdle /\ TaskIdle /\ WalkIdle /\ TagIdle /\ UploadIdle /\ InlineIdle /\ FuncIdle
SpecCodec == InitCodec /\ [][CodecNext]_vars

InitCache == CacheInit /\ CodecIdle /\ TaskIdle /\ WalkIdle /\ TagIdle /\ UploadIdle /\ InlineIdle /\ FuncIdle
SpecCache == InitCache /\ [][CacheNext]_vars

InitConc == ConcInit /\ CodecIdle /\ WalkIdle /\ TagIdle /\ UploadIdle /\ InlineIdle /\ FuncIdle
SpecConc == InitConc /\ [][ConcNext]_vars

\* the event loop keeps running every task that can take a step
FairConc == SpecConc /\ \A t \in Tasks : WF_vars(TaskStep(t))

InitWalk == WalkInit /\ CodecIdle /\ CacheIdle /\ TaskIdle /\ TagIdle /\ UploadIdle /\ InlineIdle /\ FuncIdle
SpecWalk == InitWalk /\ [][WalkNext]_vars

\* a walk that can take a step takes it
FairWalk == SpecWalk /\ WF_vars(WalkStep)

InitTag == TagInitial /\ CodecIdle /\ CacheIdle /\ TaskIdle /\ WalkIdle /\ UploadIdle /\ InlineIdle /\ FuncIdle
SpecTag == InitTag /\ [][TagNext]_vars

SpecEdit == InitTag /\ [][EditNext]_vars

InitSession == SessionInitial /\ CodecIdle /\ CacheIdle /\ TaskIdle /\ WalkIdle /\ UploadIdle /\ InlineIdle /\ FuncIdle
SpecSession == InitSession /\ [][SessionNext]_vars

InitInline ==
    CacheInit /\ CodecIdle /\ TaskIdle /\ WalkIdle /\ TagIdle /\ UploadIdle /\ InlineIdle /\ FuncIdle
SpecInline == InitInline /\ [][InlineNext]_vars

InitStore ==
    StoreInitial /\ CodecIdle /\ CacheIdle /\ TaskIdle /\ WalkIdle /\ TagIdle /\ UploadIdle /\ InlineIdle
SpecStore == InitStore /\ [][StoreCall]_vars

InitRows ==
    RowsInitial /\ CodecIdle /\ TaskIdle /\ WalkIdle /\ TagIdle /\ UploadIdle /\ InlineIdle /\ FuncIdle
SpecRows == InitRows /\ [][RowsNext]_vars

InitParse ==
    ParseInitial /\ CacheIdle /\ TaskIdle /\ WalkIdle /\ TagIdle /\ UploadIdle /\ InlineIdle /\ FuncIdle
SpecParse == InitParse /\ [][ParseMenu]_vars

InitOrder ==
    OrderInitial /\ CodecIdle /\ CacheIdle /\ TaskIdle /\ WalkIdle /\ TagIdle /\ UploadIdle /\ InlineIdle
SpecOrder == InitOrder /\ [][OrderCall]_vars

InitPages ==
    PagesInitial /\ CodecIdle /\ CacheIdle /\ TaskIdle /\ WalkIdle /\ TagIdle /\ UploadIdle /\ InlineIdle
SpecPages == InitPages /\ [][RenderPage]_vars

InitStart ==
    StartInitial /\ CodecIdle /\ CacheIdle /\ TaskIdle /\ WalkIdle /\ UploadIdle /\ InlineIdle /\ FuncIdle
SpecStart == InitStart /\ [][StartNext]_vars

InitQuery ==
    QueryInitial /\ CodecIdle /\ CacheIdle /\ TaskIdle /\ WalkIdle /\ TagIdle /\ UploadIdle /\ InlineIdle
SpecQuery == InitQuery /\ [][InlineQuery]_vars

InitUpload == UploadInitial /\ CacheIdle /\ CodecIdle /\ TaskIdle /\ WalkIdle /\ TagMenuIdle /\ InlineIdle /\ FuncIdle
SpecUpload == InitUpload /\ [][UploadNext]_vars

SpecMenu == InitUpload /\ [][MenuNext]_vars

InitUploadTag == UploadInitial /\ CacheIdle /\ CodecIdle /\ TaskIdle /\ WalkIdle /\ TagMenuAtUpload /\ InlineIdle /\ FuncIdle
SpecUploadTag == InitUploadTag /\ [][UploadTagNext]_vars

InitConfirm == ConfirmInitial /\ CodecIdle /\ WalkIdle /\ TagIdle /\ UploadIdle /\ InlineIdle
SpecConfirm == InitConfirm /\ [][ConfirmNext]_vars

InitPaging ==
    PagingInitial /\ CodecIdle /\ CacheIdle /\ TaskIdle /\ WalkIdle /\ TagIdle /\ UploadIdle /\ InlineIdle
SpecPaging == InitPaging /\ [][InlinePage]_vars

InitToggle ==
    ToggleInitial /\ CodecIdle /\ CacheIdle /\ TaskIdle /\ WalkIdle /\ TagIdle /\ UploadIdle /\ InlineIdle
SpecToggle == InitToggle /\ [][TogglePress]_vars

\* the posts are freshly created: each has every default tagging tag
InitWorkflow == InitTag /\ \A post \in PostIds : gTags[post] = DEFAULT_TAGGING_TAGS
SpecWorkflow == InitWorkflow /\ [][WorkflowNext]_vars
SpecCancel == InitWorkflow /\ [][CancelNext]_vars

InitCommission ==
    CommissionInitial /\ CodecIdle /\ CacheIdle /\ TaskIdle /\ WalkIdle /\ UploadIdle /\ InlineIdle /\ FuncIdle
SpecCommission == InitCommission /\ [][CommissionNext]_vars

\* a tagging menu beside the unuploaded list, or a catalog with every id
\* still free and the events of the unuploaded list used up
InitSender ==
    \/ InitUploadTag
    \/ /\ StartInitial /\ CodecIdle /\ CacheIdle /\ TaskIdle /\ WalkIdle /\ InlineIdle /\ FuncIdle
       /\ \A post \in PostIds : gTags[post] = {}
       /\ uMsg = NoUploadMenu
       /\ uCache = {}
       /\ uSteps = MaxSteps
       /\ uNow = 0
       /\ uEvt = NoUploadEvent

SpecSender == InitSender /\ [][SenderNext]_vars

(***************************************************************************)
(* C1: the codec round trip.  For every state map and every key list that  *)
(* is a subset of its keys, parsing the message whose hidden link is       *)
(* hidden_data(M, K) returns exactly the restriction of M to K.            *)
(***************************************************************************)
C1_RoundTrip ==
    cpc = "parsed" => cOut = Some(Restrict(cData, cKeys))

LastCall == callLog[Len(callLog)]

(***************************************************************************)
(* C2: store_in_cache(post, v) leaves a row stored before for the other    *)
(* variant (post.id, not v) untouched: the row is still there with the     *)
(* same media id, access hash and is_photo flag.                           *)
(***************************************************************************)
C2_OtherVariantUntouched ==
    callLog # <<>> =>
        \A i \in RowsOf(LastCall.before, LastCall.post, ~LastCall.v) :
            \E j \in RowsOf(table, LastCall.post, ~LastCall.v) :
                /\ table[j].media_id = LastCall.before[i].media_id
                /\ table[j].access_hash = LastCall.before[i].access_hash
                /\ table[j].is_photo = LastCall.before[i].is_photo

(***************************************************************************)
(* C3: two store_in_cache calls in sequence for the same post and the same *)
(* variant flag leave exactly one row with key (post.id, v), and           *)
(* load_cache(post.id, v) returns the entry the second call wrote.         *)
(***************************************************************************)
TwiceInSequence ==
    /\ Len(callLog) >= 2
    /\ callLog[Len(callLog) - 1].post = LastCall.post
    /\ callLog[Len(callLog) - 1].v = LastCall.v

C3_StoreTwice ==
    TwiceInSequence =>
        /\ Cardinality(RowsOf(table, LastCall.post, LastCall.v)) = 1
        /\ LET got == LoadCache(table, LastCall.post, LastCall.v)
           IN  /\ got.found
               /\ \A e \in got.entry : /\ e.media_id = LastCall.media
                                       /\ e.cache_date = Len(callLog)

C3_Witness ==
    /\ TwiceInSequence
    /\ LastCall.v
    /\ Cardinality(RowsOf(table, LastCall.post, TRUE)) = 1

(***************************************************************************)
(* C4: after any sequence of store_in_cache calls the table holds at most  *)
(* one row per (post_id, sent_as_file), and the rows (id, False) and       *)
(* (id, True) of one post can exist together.                              *)
(***************************************************************************)
C4_OneRowPerKey ==
    \A i, j \in 1..Len(table) : SameKey(table[i], table[j]) => i = j

C4_Witness ==
    /\ Len(callLog) >= 2
    /\ \E p \in PostIds : RowsOf(table, p, FALSE) # {} /\ RowsOf(table, p, TRUE) # {}

(***************************************************************************)
(* C5: two store_in_cache calls for the same (post.id, v), interleaved at  *)
(* their suspension points in any order, both complete, and then there is  *)
(* exactly one row for (post.id, v), holding the file handle of whichever  *)
(* save ran last.                                                          *)
(***************************************************************************)
LastWriteWins ==
    AllDone =>
        \A t \in Tasks :
            /\ Cardinality(RowsOf(table, treq[t].post, treq[t].v)) = 1
            /\ lastSaver[treq[t].v] \in Tasks
            /\ \A i \in RowsOf(table, treq[t].post, treq[t].v) :
                  /\ table[i].media_id = tmsg[lastSaver[treq[t].v]]
                  /\ table[i].access_hash = 0 - tmsg[lastSaver[treq[t].v]]

C5_Concurrent == []LastWriteWins /\ <>AllDone

C5_Witness ==
    /\ AllDone
    /\ \E t \in Tasks : lastSaver[treq[t].v] = t /\ tmsg[t] < nextMedia - 1

(***************************************************************************)
(* C7: state-machine termination.  From every registered phase and for     *)
(* every fixed tag state, applying next_phase again and again reaches      *)
(* "done" after at most as many steps as there are phases; every result on *)
(* the way is a registered phase and no phase is visited twice.            *)
(***************************************************************************)
WalkBounded ==
    /\ NoRepeats(wPath)
    /\ Len(wPath) - 1 <= Cardinality(PhaseNames)
    /\ \A i \in 1..Len(wPath) :
          \/ wPath[i] \in PhaseNames
          \/ wPath[i] = "done" /\ i = Len(wPath)

C7_Termination == []WalkBounded /\ <>(WalkAt = "done")

C7_Witness ==
    /\ Len(wPath) = Cardinality(PhaseNames) + 1
    /\ wPath[1] = "comm_status"
    /\ WalkAt = "done"

(***************************************************************************)
(* C8 as stated: for an entry whose tags are {status:wip}, next_phase of   *)
(* the artist phase returns wip_tags.                                      *)
(***************************************************************************)
C8_ArtistToWipTags ==
    wTags = { STATUS_WIP } =>
        \A i \in 1..(Len(wPath) - 1) : wPath[i] = "artist" => wPath[i + 1] = "wip_tags"

(***************************************************************************)
(* C8, amended: for an entry whose tags are {status:wip}, next_phase of    *)
(* the artist phase returns meta_commissions, and next_phase of            *)
(* meta_commissions then returns wip_tags (not meta).                      *)
(***************************************************************************)
C8_ArtistToWipTagsViaCommission ==
    wTags = { STATUS_WIP } =>
        \A i \in 1..(Len(wPath) - 1) :
            /\ wPath[i] = "artist" => wPath[i + 1] = "meta_commissions"
            /\ wPath[i] = "meta_commissions" => wPath[i + 1] = "wip_tags"

C8_Witness ==
    /\ wTags = { STATUS_WIP }
    /\ \E i \in 1..(Len(wPath) - 2) :
          /\ wPath[i] = "artist"
          /\ wPath[i + 1] = "meta_commissions"
          /\ wPath[i + 2] = "wip_tags"

(***************************************************************************)
(* C9: for an entry tagged status:final and not status:wip, next_phase of  *)
(* the artist phase returns meta_commissions or meta, and the chain of     *)
(* next_phase results from any phase other than wip_tags never contains    *)
(* wip_tags.                                                               *)
(***************************************************************************)
C9_FinalNeverWipTags ==
    (STATUS_FINAL \in wTags /\ STATUS_WIP \notin wTags) =>
        /\ \A i \in 1..(Len(wPath) - 1) :
              wPath[i] = "artist" => wPath[i + 1] \in { "meta_commissions", "meta" }
        /\ wPath[1] # "wip_tags" => \A i \in 1..Len(wPath) : wPath[i] # "wip_tags"

C9_Witness ==
    /\ STATUS_FINAL \in wTags /\ STATUS_WIP \notin wTags
    /\ wPath[1] = "comm_status"
    /\ \E i \in 1..(Len(wPath) - 1) : wPath[i] = "artist"
    /\ WalkAt = "done"

(***************************************************************************)
(* C6: when the next-phase button is pressed on a phase whose post_check   *)
(* rejects the entry, the violation is reported, the workflow does not     *)
(* advance, and the session state in the menu message (tag_phase, page,    *)
(* order, post_id) is what it was before the press.                        *)
(***************************************************************************)
C6_RejectedKeepsState ==
    (tEvt.kind = "next" /\ tEvt.raised) =>
        /\ tEvt.reported
        /\ mMsg.kind = "menu"
        /\ ParseHiddenData(mMsg.entities) = ParseHiddenData(tEvt.before.entities)

ExactlyOne(a, b, c) ==
    \/ a /\ ~b /\ ~c
    \/ ~a /\ b /\ ~c
    \/ ~a /\ ~b /\ c

\* three lists partition a list of posts: each post is in exactly one
Partition(all, a, b, c) ==
    /\ Len(a) + Len(b) + Len(c) = Len(all)
    /\ \A p \in Range(all) : ExactlyOne(p \in Range(a), p \in Range(b), p \in Range(c))

(***************************************************************************)
(* C10: for every post and each upload channel (e621, the operator's FA),  *)
(* in every tag state reached through upload_tag button presses, exactly   *)
(* one of uploaded, not-uploading and to-upload holds; so the uploaded,    *)
(* not-uploading and to-upload lists of a snapshot partition its posts.    *)
(***************************************************************************)
C10_TernaryUploadState ==
    /\ \A p \in PostIds :
          LET state == PostUploadState(p, gTags[p], UPLOAD_TAG_INFIX)
          IN  /\ ExactlyOne(E6Uploaded(state), E6NotUploading(state), E6ToUpload(state))
              /\ ExactlyOne(FaUploaded(state), FaNotUploading(state), FaToUpload(state))
    /\ \A e \in uCache :
          /\ Partition(AllPosts(e.posts), E6UploadedPosts(e.posts),
                       E6NotUploadingPosts(e.posts), E6ToUploadPosts(e.posts))
          /\ Partition(AllPosts(e.posts), FaUploadedPosts(e.posts),
                       FaNotUploadingPosts(e.posts), FaToUploadPosts(e.posts))

\* the first list_by_state call of the last event, and the snapshot it found
FirstCall == uEvt.calls[1]
FoundSnapshots == EntriesOf(uEvt.before, FirstCall.query, FirstCall.user_infix)
LeftSnapshots == EntriesOf(uCache, FirstCall.query, FirstCall.user_infix)

\* the e621 button was pressed on a post that a cached snapshot had as
\* pending for e621, and the post now has uploaded_to:e621
PendingNowUploaded ==
    /\ uEvt.kind = "upload_tag"
    /\ uEvt.data = E621
    /\ ~FirstCall.scanned
    /\ \A e \in FoundSnapshots : uEvt.post \in Range(E6ToUploadPosts(e.posts))
    /\ UploadTag(E621) \in gTags[uEvt.post]

(***************************************************************************)
(* C11: after update_post(e) on a cached snapshot that had e as pending    *)
(* for e621, with e now tagged uploaded_to:e621, the snapshot lists e      *)
(* under e6_uploaded and not under e6_to_upload, contains e exactly once,  *)
(* leaves the classification of every other entry as it was, and no scan   *)
(* of the catalog is made.                                                 *)
(***************************************************************************)
C11_UpdatePostReclassifies ==
    PendingNowUploaded =>
        /\ \A c \in Range(uEvt.calls) : ~c.scanned
        /\ LeftSnapshots # {}
        /\ \A new \in LeftSnapshots :
              /\ uEvt.post \in Range(E6UploadedPosts(new.posts))
              /\ uEvt.post \notin Range(E6ToUploadPosts(new.posts))
              /\ Cardinality({ i \in 1..Len(new.posts) : new.posts[i].id = uEvt.post }) = 1
              /\ \A old \in FoundSnapshots :
                    { st \in Range(new.posts) : st.id # uEvt.post }
                        = { st \in Range(old.posts) : st.id # uEvt.post }

C11_Witness ==
    /\ PendingNowUploaded
    /\ \E new \in LeftSnapshots : Len(new.posts) = 2 /\ new.posts[2].id = 1

(***************************************************************************)
(* C12: after any operation of the bot that adds or removes an upload      *)
(* marker tag on a post (a state button of the unuploaded menu, a tag      *)
(* button of the tagging menu's upload phase), the next list_by_state for  *)
(* a key whose cached snapshot contains the post classifies the post by    *)
(* its new tags.                                                           *)
(***************************************************************************)
C12_SnapshotFollowsMarkers ==
    \A e \in uCache :
        LET posts == CachedPosts(CacheListByState(uCache, gTags, e.query, e.user_infix,
                                                  FALSE, uNow),
                                 e.query, e.user_infix)
        IN  \A i \in 1..Len(posts) :
                LET now == PostUploadState(posts[i].id, gTags[posts[i].id], e.user_infix)
                IN  /\ E6State(posts[i]) = E6State(now)
                    /\ FaState(posts[i]) = FaState(now)

(***************************************************************************)
(* C13: list_by_state(query, namespace, refresh) scans the catalog exactly *)
(* when there is no cached snapshot for (query, namespace), or refresh is  *)
(* true, or the cached snapshot's age has reached MAX_AGE; otherwise it    *)
(* returns the cached snapshot without scanning; the snapshots of other    *)
(* keys are never replaced.                                                *)
(***************************************************************************)
C13_ScansExactlyWhenStale ==
    \A c \in Range(uEvt.calls) :
        LET found == EntriesOf(c.before, c.query, c.user_infix)
            left  == EntriesOf(c.after, c.query, c.user_infix)
            stale == \/ found = {}
                     \/ c.refresh
                     \/ \E e \in found : c.now - e.created >= MAX_AGE
        IN  /\ c.scanned <=> stale
            /\ ~c.scanned => c.after = c.before
            /\ c.scanned =>
                  left = { [ query |-> c.query, user_infix |-> c.user_infix, created |-> c.now,
                             posts |-> ListByState(c.catalog, c.query, c.user_infix) ] }
            /\ c.after \ left = c.before \ found

C13_Witness ==
    \E c \in Range(uEvt.calls) :
        /\ c.scanned
        /\ ~c.refresh
        /\ EntriesOf(c.before, c.query, c.user_infix) # {}
        /\ Cardinality(c.before) = 2


\* C14: a tagging event on a message whose hidden state is absent or lacks
\* one of post_id, tag_phase, page, order is declined silently: the catalog
\* keeps its tags, the message is not edited, and the handler ends without
\* an error
C14_IncompleteSessionDeclined ==
    [][Incomplete(mMsg) =>
         /\ gTags' = gTags
         /\ gCat' = gCat
         /\ mMsg' = mMsg
         /\ tEvt'.error = "none"]_vars

\* the fields of the session a message carries
SessionOf(msg) == ParseHiddenItems(msg.entities)
PageNumbers == { ToStr(n) : n \in 0..(Len(Digits) - 1) }

\* C15: after any sequence of rendered button presses and text replies the
\* menu's hidden state has all four keys, the post_id the message before had,
\* a registered tag_phase, an order of popular or alphabetical, and a page
\* that is a non-negative integer
C15_SessionStateValid ==
    mMsg.kind = "menu" =>
        /\ ~SessionAbsent
        /\ \A f \in TagMenuFields : Has(MenuData, f)
        /\ { MenuData[i][1] : i \in 1..Len(MenuData) } = TagMenuFields
        /\ MenuPost \in PostIds
        /\ tEvt.before.kind = "menu" =>
               Get(MenuData, <<"post_id">>) = Get(SessionOf(tEvt.before), <<"post_id">>)
        /\ MenuPhase \in PhaseNames
        /\ Get(MenuData, <<"order">>) \in { <<"popular">>, <<"alphabetical">> }
        /\ Get(MenuData, <<"page">>) \in PageNumbers

\* a reply was handled on the second page of a phase put in alphabetical order
C15_Witness ==
    /\ mMsg.kind = "menu"
    /\ tEvt.kind = "reply"
    /\ tEvt.edited
    /\ Get(MenuData, <<"page">>) = ToStr(1)
    /\ Get(MenuData, <<"order">>) = <<"alphabetical">>

\* C16: the page is 0 after a next-phase press that changes the phase and
\* after an order press; a tag toggle and a text reply leave page, order and
\* tag_phase as they were
C16_PageResets ==
    /\ (tEvt.kind = "next" /\ tEvt.edited /\ MenuPhase # Get(SessionOf(tEvt.before), <<"tag_phase">>)[1])
          => Get(MenuData, <<"page">>) = ToStr(0)
    /\ (tEvt.kind = "order" /\ tEvt.edited) => Get(MenuData, <<"page">>) = ToStr(0)
    /\ (tEvt.kind \in { "tag", "reply" } /\ mMsg.kind = "menu") =>
          \A f \in { <<"page">>, <<"order">>, <<"tag_phase">> } :
              Get(MenuData, f) = Get(SessionOf(tEvt.before), f)

\* an order button was pressed on the second page
C16_Witness ==
    /\ tEvt.kind = "order"
    /\ tEvt.edited
    /\ Get(SessionOf(tEvt.before), <<"page">>) = ToStr(1)
    /\ Get(MenuData, <<"order">>) # Get(SessionOf(tEvt.before), <<"order">>)

\* C17: the phase a next-phase press enters is next_phase of the phase left,
\* evaluated on the post's tags at the time of the press, also when the tags
\* changed after the menu was last drawn (the press itself leaves the status
\* tags alone, so the tags after it decide the same)
C17_NextPhaseAtPress ==
    (tEvt.kind = "next" /\ tEvt.edited) =>
        MenuPhase = NextPhase(Get(SessionOf(tEvt.before), <<"tag_phase">>)[1], gTags[MenuPost])

\* C18: a press of the special button runs its action and then redraws the
\* same phase: tag_phase, page and order as before, the buttons those of
\* the post's new tags
C18_SpecialRedraws ==
    tEvt.kind = "special" =>
        /\ tEvt.error = "none"
        /\ tEvt.edited
        /\ mMsg = PostTagPhaseMenu(SessionOf(tEvt.before), gTags, gCat)

\* C19: after Done the message has no buttons and no hidden state,
\* parse_hidden_data of it is absent, and an event on it leaves it as it is
C19_DoneEndsSession ==
    /\ mMsg.kind = "complete" =>
          /\ ParseHiddenData(mMsg.entities) = Absent
          /\ mMsg.entities = <<>>
          /\ mMsg.next = "none" /\ mMsg.tags = {} /\ ~mMsg.order_buttons /\ mMsg.pages = {}
    /\ tEvt.before.kind = "complete" =>
          /\ mMsg = tEvt.before
          /\ tEvt.kind = "ignored"

\* the operator replied to the completion message
C19_Witness ==
    /\ mMsg.kind = "complete"
    /\ tEvt.before.kind = "complete"
    /\ tEvt.kind = "ignored"

\* the posts of a sequence that are not in a set, in order
Without(posts, failing) == SelectSeq(posts, LAMBDA post : post \notin failing)

\* C20: when the answer of one post of the page fails, that post is skipped
\* and the answers of the other posts are still sent
C20_FailingItemSkipped ==
    iEvt.kind = "query" =>
        /\ iEvt.answered
        /\ iEvt.answers = Without(iEvt.planned, iEvt.failing)

\* C21: a query triggers at most MAX_INLINE_FRESH_MEDIA store_in_cache
\* calls, whatever the number of posts of the page that are not cached, and
\* every other answer is of a post that had a cache row of the variant
C21_FreshMediaCapped ==
    iEvt.kind = "query" =>
        /\ Len(iEvt.stores) <= MAX_INLINE_FRESH_MEDIA
        /\ Len(iEvt.stores) <= Len(iEvt.planned)
        /\ \A i \in 1..Len(iEvt.planned) :
              \/ iEvt.planned[i] \in Range(iEvt.stores)
              \/ LoadCache(iEvt.before, iEvt.planned[i], iEvt.file).found

\* a query found more posts that were not cached than the cap
C21_Witness ==
    /\ iEvt.kind = "query"
    /\ Len(iEvt.stores) = MAX_INLINE_FRESH_MEDIA
    /\ Cardinality({ p \in Range(FoundPosts) : ~LoadCache(iEvt.before, p, iEvt.file).found })
          > MAX_INLINE_FRESH_MEDIA

\* a mime type that cannot be sent as inline media: no image the converter
\* handles, not video/mp4, not image/gif
CannotSendInline(mime) ==
    /\ ~(mime.type = "image" /\ mime.sub # "gif" /\ ConverterHandles(mime))
    /\ mime # [ type |-> "video", sub |-> "mp4" ]
    /\ mime # [ type |-> "image", sub |-> "gif" ]

\* C22: store_in_cache(post, False) of a file that cannot be sent as inline
\* media delivers the original file as a document and leaves a row of the
\* post with sent_as_file = TRUE
C22_FallsBackToDocument ==
    (fIn.kind = "store" /\ fOut.done /\ ~fIn.v /\ CannotSendInline(fIn.mime)) =>
        /\ fOut.delivered = "document"
        /\ \E i \in 1..Len(fOut.table) :
              fOut.table[i].post_id = fIn.post /\ fOut.table[i].sent_as_file

\* C23: a file that is not image-like or is larger than
\* TG_MAX_PHOTO_FILE_SIZE is delivered as the original file whatever the
\* flag, and only an image-like file within the limit is delivered as a
\* converted photo
C23_OversizedFallsBack ==
    (fIn.kind = "store" /\ fOut.done) =>
        /\ (fIn.mime.type # "image" \/ fIn.size > TG_MAX_PHOTO_FILE_SIZE)
              => fOut.delivered \in { "document", "media" }
        /\ fOut.delivered = "photo"
              => (fIn.mime.type = "image" /\ fIn.size <= TG_MAX_PHOTO_FILE_SIZE)

\* C24: no operation removes a cache row: a (post, variant) that load_cache
\* finds before a store, a populate, an upload confirmation or an inline
\* search is found after it
C24_RowsNeverRemoved ==
    [][\A post \in PostIds, variant \in BOOLEAN :
          LoadCache(table, post, variant).found => LoadCache(table', post, variant).found]_vars

\* a row was saved again over the row of its key, which kept its place in
\* the table, an inline search has run, and some post has both variants
C24_Witness ==
    /\ iEvt.kind = "query"
    /\ \E i, j \in 1..Len(table) : i < j /\ table[i].media_id > table[j].media_id
    /\ \E post \in PostIds : LoadCache(table, post, TRUE).found /\ LoadCache(table, post, FALSE).found

\* a query string with a piece that is no name=value pair
Malformed(query) ==
    query # <<>> /\ \E i \in 1..Len(SplitOn(query, "&")) : FirstIndex(SplitOn(query, "&")[i], "=") = 0

\* C25: parse_hidden_data returns None for a message with no link, with
\* links to other domains only, or whose hidden-domain links have an empty or
\* a malformed query string
C25_AbsentWhenNoValidMarker ==
    (/\ cpc = "parsed"
     /\ \A i \in 1..Len(cMsg) :
           \/ cMsg[i].netloc # HIDDEN_DOMAIN
           \/ cMsg[i].query = <<>>
           \/ Malformed(cMsg[i].query))
        => cOut = Absent

KeysOf(items) == { items[i][1] : i \in 1..Len(items) }

\* C26: the hidden state of a menu of the unuploaded workflow has exactly
\* the keys of its kind: the page menu query, user_infix, uploaded_only and
\* post_id, the propose menu those and proposed_field, the link menu those and
\* upload_link_num
C26_HiddenKeysOfKind ==
    /\ uMsg.kind = "page" => KeysOf(UploadMenuData) = Range(PageKeys.list)
    /\ uMsg.kind = "propose" =>
          KeysOf(UploadMenuData) = Range(PageKeys.list) \cup { <<"proposed_field">> }
    /\ uMsg.kind = "link" =>
          KeysOf(UploadMenuData) =
              Range(PageKeys.list) \cup { <<"proposed_field">>, <<"upload_link_num">> }

\* Return to upload links was pressed on a link menu, which was reached from
\* the list through a page and a propose menu
C26_Witness ==
    /\ uMsg.kind = "propose"
    /\ uEvt.kind = "upload_propose"
    /\ uEvt.data = "link"

\* the orderings of a list
Orderings(s) ==
    { q \in [ 1..Len(s) -> Range(s) ] : Range(q) = Range(s) }

\* C27: the popular order is by descending popularity, ties by ascending
\* tag name, and is the same for every permutation of the candidates; the
\* alphabetical order is by tag name alone
C27_OrderDeterministic ==
    (fIn.kind = "order" /\ fOut.done) =>
        /\ Range(fOut.tags) = Range(fIn.tags) /\ Len(fOut.tags) = Len(fIn.tags)
        /\ \A q \in Orderings(fIn.tags) :
              OrderedTags(q, fIn.order, fIn.posts, fIn.filters) = fOut.tags
        /\ fIn.order = "popular" =>
              \A i, j \in 1..Len(fOut.tags) : i < j =>
                 LET pi == TagPopularity(fIn.posts, fIn.filters, fOut.tags[i])
                     pj == TagPopularity(fIn.posts, fIn.filters, fOut.tags[j])
                 IN  pi > pj \/ (pi = pj /\ StrLess(fOut.tags[i], fOut.tags[j]))
        /\ fIn.order = "alphabetical" =>
              \A i, j \in 1..Len(fOut.tags) : i < j => StrLess(fOut.tags[i], fOut.tags[j])

\* three candidates given out of order, two of them equally popular and one
\* more popular, sorted by popularity
C27_Witness ==
    /\ fIn.kind = "order" /\ fOut.done /\ fIn.order = "popular"
    /\ Len(fIn.tags) = 3
    /\ fOut.tags # fIn.tags
    /\ TagPopularity(fIn.posts, fIn.filters, fOut.tags[1])
          > TagPopularity(fIn.posts, fIn.filters, fOut.tags[2])
    /\ TagPopularity(fIn.posts, fIn.filters, fOut.tags[2])
          = TagPopularity(fIn.posts, fIn.filters, fOut.tags[3])

\* C28: the pages walked from page 0 by Next page show the ordered
\* candidates one after the other, none twice and none left out, and Next
\* page is on a page exactly when the page after it has a button
C28_PagesCoverCandidates ==
    (fIn.kind = "pages" /\ fOut.done) =>
        LET size == fIn.per_line * MAX_TAG_BUTTON_LINES
            upto == IF (fOut.page_num + 1) * size < Len(fIn.tag_buttons)
                    THEN (fOut.page_num + 1) * size ELSE Len(fIn.tag_buttons)
        IN  /\ fOut.shown = SubSeq(fIn.tag_buttons, 1, upto)
            /\ ~fOut.next => fOut.shown = fIn.tag_buttons
            /\ fOut.next <=> Len(fIn.tag_buttons) > (fOut.page_num + 1) * size
            /\ fOut.page_num > 0 => fOut.page # <<>>

\* one button more than a page holds, two buttons per line: the second page
\* shows the last button and has no Next page
C28_Witness ==
    /\ fIn.kind = "pages" /\ fOut.done
    /\ fIn.per_line = 2
    /\ Len(fIn.tag_buttons) = 2 * MAX_TAG_BUTTON_LINES + 1
    /\ fOut.page_num = 1
    /\ ~fOut.next

\* C29: the menu a workflow starts with, by "/tag <id>" or by an upload
\* confirmation, carries post_id of that post, tag_phase comm_status, page 0
\* and order popular, and nothing else; "/tag" without an id and a cancelled
\* upload leave no menu
C29_WorkflowStartsAtCommStatus ==
    [][/\ \A post \in PostIds :
            (TagInit(post) \/ \E upload_resp \in { "sfw", "nsfw" } : UploadConfirm(upload_resp, post))
               => /\ mMsg'.kind = "menu"
                  /\ Range(ParseHiddenItems(mMsg'.entities)) =
                        { << <<"post_id">>, ToStr(post) >>,
                          << <<"tag_phase">>, <<"comm_status">> >>,
                          << <<"page">>, <<"0">> >>,
                          << <<"order">>, <<"popular">> >> }
       /\ (TagInitWithoutPost("") \/ \E post \in PostIds : UploadConfirm("cancel", post))
               => mMsg' = mMsg]_vars

\* an upload of post 2 was confirmed and its menu is on the first phase
C29_Witness ==
    /\ tEvt.kind = "upload_confirm"
    /\ mMsg.kind = "menu"
    /\ MenuPost = 2
    /\ MenuPhase = "comm_status"
    /\ mMsg.pages = {}

\* C30: the search query of an inline query has the term -b for every
\* blocked tag b of the user, whatever modifiers the text has, and the
\* caption of the answers has no such term
C30_BlockedTagsAlwaysNegated ==
    (fIn.kind = "query" /\ fOut.done) =>
        \A i \in 1..Len(fIn.blocked_tags) :
            /\ <<"-", fIn.blocked_tags[i]>> \in Range(Words(fOut.params.query))
            /\ <<"-", fIn.blocked_tags[i]>> \notin Range(Words(fOut.caption))

\* C31: a button press or reply by a sender who is no trusted user leaves
\* the catalog and the menus as they are, for every handler that writes to
\* the catalog
C31_OnlyTrustedSendersAct ==
    [][\A sender \in Senders \ TrustedUserIds :
          (\/ \E tag \in PressedTags : TagCallbackFrom(sender, tag)
           \/ TagPhaseNextFrom(sender)
           \/ \E tag \in ReplyTags : AddTagWithReplyFrom(sender, tag)
           \/ \E post \in PostIds : UploadConfirmFrom(sender, "sfw", post)
           \/ \E data \in StateButtons(UPLOAD_TAG_INFIX) : UploadTagCallbackFrom(sender, data))
             => /\ gTags' = gTags
                /\ gCat' = gCat
                /\ mMsg' = mMsg
                /\ uMsg' = uMsg]_vars

\* the post of the menu the Done button was pressed on
DonePost == ToInt(Get(SessionOf(tEvt.before), <<"post_id">>))
WorkflowDone == tEvt.kind = "done" /\ tEvt.error = "none" /\ mMsg.kind = "complete"
OneStatus(tags) == (STATUS_WIP \in tags) # (STATUS_FINAL \in tags)

\* C32: when the workflow of a post that started with every default tagging
\* tag has been driven from comm_status to Done with exactly one of
\* status:wip and status:final set, the post has no tagging:needs_ tag of a
\* registered phase (wip_tags and upload included) and still has
\* tagging:needs_relations
C32_WorkflowClearsPhaseTags ==
    (WorkflowDone /\ OneStatus(gTags[DonePost]))
        => /\ \A phase \in PhaseNames : TaggingTag(phase) \notin gTags[DonePost]
           /\ TaggingTag("relations") \in gTags[DonePost]

C32_Witness ==
    /\ WorkflowDone
    /\ STATUS_FINAL \in gTags[DonePost]
    /\ STATUS_WIP \notin gTags[DonePost]
    /\ tEvt.before.next = "done"
    /\ Get(SessionOf(tEvt.before), <<"tag_phase">>) = <<"upload">>

\* C33: after the same tag button was pressed twice in succession the post
\* has the tags it had before the first press, for every tag (a tag with
\* implications included) and every tag set
C33_DoublePressRestores ==
    (fIn.kind = "toggle" /\ fOut.done) => (fOut.presses = 2 => fOut.tags = fIn.tags)

\* the posts answered on the pages so far, page after page
RECURSIVE AnsweredOn(_)
AnsweredOn(pages) == IF pages = <<>> THEN <<>> ELSE Head(pages) \o AnsweredOn(Tail(pages))

\* C34: following next_offset from offset 0, no post is answered on two
\* pages, next_offset is above the offset of the request while posts that
\* are no webm remain unanswered, and when the pages end every matching post
\* that is no webm has been answered
C34_EveryPostOnOnePage ==
    fIn.kind = "pages" =>
        LET answered  == AnsweredOn(fOut.pages)
            remaining == (Matching \ fIn.webms) \ Range(answered)
        IN  /\ \A i, j \in 1..Len(answered) : i # j => answered[i] # answered[j]
            /\ \A k \in 1..Len(fOut.pages) :
                  LET left == (Matching \ fIn.webms) \ Range(AnsweredOn(SubSeq(fOut.pages, 1, k - 1)))
                  IN  left # {} => fOut.offsets[k + 1] > fOut.offsets[k]
            /\ (fOut.pages # <<>> /\ fOut.pages[Len(fOut.pages)] = <<>>) => remaining = {}

\* C35: one confirmation message creates at most one post: createPost is
\* called by at most one of the handlers of its presses, however their
\* steps interleave
C35_OnePostPerConfirmation ==
    fIn.kind = "confirm" => Cardinality({ t \in Tasks : fOut.created[t] # 0 }) <= 1

\* C36: a reply with a tag name to the menu of a phase that takes no new
\* tags (comm_status, upload) is answered with the rejection and changes
\* nothing in the catalog: no tag is created, no category is set, the tags
\* of the posts stay
C36_RejectedReplyChangesNothing ==
    [][\A tag \in ReplyTags :
          (/\ AddTagWithReply(tag)
           /\ FilterReplyToMenuWithFields(mMsg, TagMenuFields)
           /\ MenuPhase \in PhaseNames
           /\ NewTagCategory(MenuPhase) = "")
             => /\ tEvt'.reported
                /\ gCat' = gCat
                /\ gTags' = gTags]_vars

\* C37: the Cancel button leaves the catalog as it is (no tag and no
\* tagging:needs_ tag is added or removed, post_check does not run) and
\* puts a message without buttons and without hidden state in the menu's
\* place
C37_CancelLeavesEntry ==
    [][(TagPhaseCancel /\ Subscript(<<"post_id">>) = "none")
          => /\ gTags' = gTags
             /\ gCat' = gCat
             /\ ~tEvt'.raised
             /\ mMsg' = ClosedMessage("cancelled")
             /\ mMsg'.entities = <<>>
             /\ mMsg'.tags = {} /\ mMsg'.next = "none"
             /\ ~mMsg'.order_buttons /\ mMsg'.pages = {}]_vars

C37_Witness ==
    /\ tEvt.kind = "cancel"
    /\ tEvt.error = "none"
    /\ tEvt.before.kind = "menu"
    /\ Get(SessionOf(tEvt.before), <<"tag_phase">>) = <<"our_characters">>
    /\ TaggingTag("our_characters") \in gTags[ToInt(Get(SessionOf(tEvt.before), <<"post_id">>))]
    /\ mMsg.kind = "cancelled"

\* the highest number of a commission tag on any post, 0 without one
HighestCommission(tags) ==
    LET numbers == { CommissionNumber(u) :
                       u \in { v \in UNION { tags[p] : p \in DOMAIN tags } : IsCommission(v) } }
    IN  IF numbers = {} THEN 0 ELSE CHOOSE n \in numbers : \A k \in numbers : k <= n

\* C38: a press of New commission changes the tags of the menu's post only
\* and removes none; a post that has a tag of category meta-commissions
\* gets nothing; a tag the press adds is the one commission tag numbered
\* one above the highest number in use (1 when none is), which no post has
\* before the press: presses on different posts never give the same tag
C38_NewCommissionIsFresh ==
    [][(TagSpecial /\ Subscript(<<"post_id">>) = "none")
          => LET added == gTags'[MenuPost] \ gTags[MenuPost]
             IN  /\ \A p \in PostIds \ { MenuPost } : gTags'[p] = gTags[p]
                 /\ gTags[MenuPost] \subseteq gTags'[MenuPost]
                 /\ CommissionsIn(gTags[MenuPost], gCat) # {} => added = {}
                 /\ added \subseteq { CommissionTag(HighestCommission(gTags) + 1) }
                 /\ \A p \in PostIds : added \cap gTags[p] = {}]_vars

C38_Witness ==
    /\ tEvt.kind = "special"
    /\ tEvt.error = "TypeError"
    /\ \E post, other \in PostIds :
          /\ post # other
          /\ CommissionTag(3) \in gTags[post]
          /\ CommissionTag(2) \in gTags[other]
          /\ CommissionTag(2) \notin gTags[post]

\* the posts the page menu lists: posts_to_upload of the snapshot
ListedPosts ==
    Range(PostsToUpload(CachedPosts(uCache, Get(UploadMenuData, <<"query">>),
                                    Get(UploadMenuData, <<"user_infix">>)[1])))
PagePost == ToInt(Get(UploadMenuData, <<"post_id">>))

\* C39: on a page of the unuploaded menu the buttons lead to the listed
\* post with the largest id below the page's post and to the one with the
\* smallest id above it, each offered exactly when there is such a post, and
\* the position #k/total of the title has 1 <= k <= total, also after the
\* state buttons changed the page's post
C39_PageWithinList ==
    uMsg.kind = "page" =>
        /\ \A p \in ListedPosts :
              p \in uMsg.pages <=>
                 \/ p > PagePost /\ \A q \in ListedPosts : q > PagePost => p <= q
                 \/ p < PagePost /\ \A q \in ListedPosts : q < PagePost => q <= p
        /\ uMsg.pages \subseteq ListedPosts
        /\ 1 <= uMsg.position
        /\ uMsg.position <= uMsg.total

\* C40: "/unuploaded" of a trusted user always ends with the summary reply,
\* for every result of the query, also when no matching post is left to
\* upload or categorise
C40_SummaryAlwaysSent ==
    [][\A words \in { <<>>, << <<OWNER_TAG>> >> } :
          ListUnuploaded(words) => /\ uMsg'.kind = "list"
                                   /\ uMsg'.entities # <<>>]_vars

=============================================================================
